---------------------------- MODULE Spec2Model ----------------------------
(***************************************************************************)
(* Model of the batch-submission / response-parsing protocol of            *)
(* CloudResourceDeviationAnalyzer                                          *)
(* (src/src/agents/cloud_resource_deviation_analyzer.py).                  *)
(*                                                                         *)
(* Part A  the Text-to-Structured Extractor (_extract_json_from_text) as   *)
(*         operators over token sequences, exercised by ExtractSpec.       *)
(* Part B  the Conversational Run Client and the Batch Scheduler as a      *)
(*         state machine with one process per batch task (Spec, CallSpec). *)
(***************************************************************************)
EXTENDS Integers, Sequences, FiniteSets, TLC

(***************************************************************************)
(* PART A: response text and JSON.                                         *)
(*                                                                         *)
(* A response text is a sequence of tokens; the text it stands for is the  *)
(* concatenation of the tokens. Every token but FENCE stands for exactly   *)
(* the characters of its string:                                           *)
(*    "FENCE"         three backticks, the markdown code-fence marker (a   *)
(*                    backtick cannot be written in a TLA+ string)         *)
(*    "json"  " "  "["  "]"  "{"  "}"  ","  "0"  "x"                       *)
(*    "\"a\":"        the member key "a" with its colon                    *)
(*    "\"results\":"  the member key "results" with its colon              *)
(* No two adjacent tokens form a lexeme that neither forms alone ("00" is  *)
(* no JSON number, "xx" no JSON literal), so matching the regular          *)
(* expressions and parsing JSON token by token agrees with doing so        *)
(* character by character.                                                 *)
(***************************************************************************)
FENCE == "FENCE"
JSONTAG == "json"
WS == " "
LBRACK == "["
RBRACK == "]"
LBRACE == "{"
RBRACE == "}"
COMMA == ","
ZERO == "0"
PROSE == "x"
KEY_A == "\"a\":"
KEY_RESULTS == "\"results\":"

Keys == {KEY_A, KEY_RESULTS}
Alphabet == {FENCE, JSONTAG, WS, LBRACK, RBRACK, LBRACE, RBRACE, COMMA, ZERO,
             PROSE, KEY_A, KEY_RESULTS}

\* Length of the longest arbitrary token sequence given to the extractor.
MaxTextLen == 4
\* Nesting depth of the JSON documents embedded in structured response texts.
MaxDepth == 1

Min(S) == CHOOSE x \in S : \A y \in S : x <= y

(***************************************************************************)
(* Python values are nodes [t, v]: t names the type ("num", "list",        *)
(* "dict"), v holds the children. The children of a dict are its members in *)
(* insertion order, each a node whose t is the key and whose v is the      *)
(* one-element sequence of the value of the member.                        *)
(***************************************************************************)
Node(t, v) == [t |-> t, v |-> v]
EmptyList == Node("list", <<>>)
IsList(n) == n.t = "list"
IsDict(n) == n.t = "dict"
HasKey(d, k) == \E i \in 1..Len(d.v) : d.v[i].t = k
GetKey(d, k) == d.v[CHOOSE i \in 1..Len(d.v) : d.v[i].t = k].v[1]
\* d[k] = val on a Python dict: an existing key keeps its position.
SetKey(members, k, val) ==
    IF \E i \in 1..Len(members) : members[i].t = k
    THEN [i \in 1..Len(members) |->
            IF members[i].t = k THEN Node(k, <<val>>) ELSE members[i]]
    ELSE Append(members, Node(k, <<val>>))

\* The first index >= i of s that holds no whitespace (Len(s)+1 if none).
RECURSIVE SkipWs(_, _)
SkipWs(s, i) == IF i <= Len(s) /\ s[i] = WS THEN SkipWs(s, i + 1) ELSE i

Fail == [ok |-> FALSE, val |-> EmptyList, next |-> 0]
Ok(val, next) == [ok |-> TRUE, val |-> val, next |-> next]

(***************************************************************************)
(* json.loads: the recursive-descent scanner of the standard library.      *)
(* ParseValue(s, i) scans one value starting exactly at s[i].              *)
(***************************************************************************)
RECURSIVE ParseValue(_, _), ParseArray(_, _, _), ParseMembers(_, _, _)
ParseValue(s, i) ==
    IF i > Len(s) THEN Fail
    ELSE IF s[i] = ZERO THEN Ok(Node("num", <<>>), i + 1)
    ELSE IF s[i] = LBRACK THEN
        LET j == SkipWs(s, i + 1) IN
        IF j <= Len(s) /\ s[j] = RBRACK THEN Ok(EmptyList, j + 1)
        ELSE ParseArray(s, j, <<>>)
    ELSE IF s[i] = LBRACE THEN
        LET j == SkipWs(s, i + 1) IN
        IF j <= Len(s) /\ s[j] = RBRACE THEN Ok(Node("dict", <<>>), j + 1)
        ELSE ParseMembers(s, j, <<>>)
    ELSE Fail

\* The elements of an array from s[i] on, acc the elements scanned so far.
ParseArray(s, i, acc) ==
    LET r == ParseValue(s, i) IN
    IF ~r.ok THEN Fail
    ELSE LET j == SkipWs(s, r.next)
             items == Append(acc, r.val) IN
         IF j > Len(s) THEN Fail
         ELSE IF s[j] = RBRACK THEN Ok(Node("list", items), j + 1)
         ELSE IF s[j] = COMMA THEN ParseArray(s, SkipWs(s, j + 1), items)
         ELSE Fail

\* The members of an object from s[i] on, acc the members scanned so far.
ParseMembers(s, i, acc) ==
    IF i > Len(s) \/ s[i] \notin Keys THEN Fail
    ELSE LET r == ParseValue(s, SkipWs(s, i + 1)) IN
         IF ~r.ok THEN Fail
         ELSE LET j == SkipWs(s, r.next)
                  members == SetKey(acc, s[i], r.val) IN
              IF j > Len(s) THEN Fail
              ELSE IF s[j] = RBRACE THEN Ok(Node("dict", members), j + 1)
              ELSE IF s[j] = COMMA THEN ParseMembers(s, SkipWs(s, j + 1), members)
              ELSE Fail

\* json.loads(s): one value, surrounded by optional whitespace, and nothing else.
\* ok = FALSE stands for json.JSONDecodeError.
json_loads(s) ==
    LET r == ParseValue(s, SkipWs(s, 1)) IN
    IF r.ok /\ SkipWs(s, r.next) > Len(s) THEN r ELSE Fail

(***************************************************************************)
(* The regular expressions of _extract_json_from_text, on tokens.          *)
(***************************************************************************)
\* re.sub(r'FENCE(?:json)?\s*|\s*FENCE', '', text) from index i on: at each
\* position the first alternative is tried first; a match is dropped and the
\* scan goes on behind it, an unmatched token is kept.
RECURSIVE StripFrom(_, _)
StripFrom(t, i) ==
    IF i > Len(t) THEN <<>>
    ELSE IF t[i] = FENCE THEN
        LET j == IF i + 1 <= Len(t) /\ t[i + 1] = JSONTAG THEN i + 2 ELSE i + 1
        IN StripFrom(t, SkipWs(t, j))
    ELSE LET w == SkipWs(t, i) IN
         IF w <= Len(t) /\ t[w] = FENCE THEN StripFrom(t, w + 1)
         ELSE <<t[i]>> \o StripFrom(t, i + 1)

StripFences(t) == StripFrom(t, 1)

NoMatch == [found |-> FALSE, content |-> <<>>]
Match(content) == [found |-> TRUE, content |-> content]

\* re.search(r'FENCEjson\s*([\s\S]*?)\s*FENCE', t): group 1 of the leftmost match.
\* The group starts behind the whitespace that follows the tag and is the
\* shortest stretch that whitespace and a closing fence follow.
FencedStarts(t) ==
    {i \in 1..Len(t) : /\ t[i] = FENCE
                       /\ i + 1 <= Len(t) /\ t[i + 1] = JSONTAG
                       /\ \E e \in (i + 2)..Len(t) : t[e] = FENCE}
SearchFencedJson(t) ==
    IF FencedStarts(t) = {} THEN NoMatch
    ELSE LET i == Min(FencedStarts(t))
             k == SkipWs(t, i + 2)
             e == Min({n \in (k - 1)..Len(t) :
                         LET c == SkipWs(t, n + 1) IN c <= Len(t) /\ t[c] = FENCE})
         IN Match(SubSeq(t, k, e))

\* re.search(r'\[\s*{[\s\S]*?}\s*\]', t): group 0 of the leftmost match, which
\* ends at the first "}" behind the "{" that whitespace and a "]" follow.
ArrayEnds(t, k) ==
    {m \in (k + 1)..Len(t) :
        /\ t[m] = RBRACE
        /\ LET c == SkipWs(t, m + 1) IN c <= Len(t) /\ t[c] = RBRACK}
ArrayStarts(t) ==
    {i \in 1..Len(t) : /\ t[i] = LBRACK
                       /\ LET k == SkipWs(t, i + 1) IN
                            k <= Len(t) /\ t[k] = LBRACE /\ ArrayEnds(t, k) # {}}
SearchArray(t) ==
    IF ArrayStarts(t) = {} THEN NoMatch
    ELSE LET i == Min(ArrayStarts(t))
             m == Min(ArrayEnds(t, SkipWs(t, i + 1)))
         IN Match(SubSeq(t, i, SkipWs(t, m + 1)))

\* re.search(r'{[\s\S]*?}', t): from the first "{" that a "}" follows to the
\* first "}" behind it.
ObjectStarts(t) ==
    {i \in 1..Len(t) : t[i] = LBRACE /\ \E m \in (i + 1)..Len(t) : t[m] = RBRACE}
SearchObject(t) ==
    IF ObjectStarts(t) = {} THEN NoMatch
    ELSE LET i == Min(ObjectStarts(t))
             m == Min({n \in (i + 1)..Len(t) : t[n] = RBRACE})
         IN Match(SubSeq(t, i, m))

(***************************************************************************)
(* _extract_json_from_text. An outcome is what the call does: it returns   *)
(* a Python value (raised = FALSE) or lets an exception escape (raised =   *)
(* TRUE).                                                                  *)
(***************************************************************************)
Return(val) == [raised |-> FALSE, val |-> val]
Raise == [raised |-> TRUE, val |-> EmptyList]

\* Lines 626-634: the whole text is the candidate if json.loads accepts it;
\* the bare except returns the empty list.
WholeTextCandidate(t) == IF json_loads(t).ok THEN Match(t) ELSE NoMatch

\* Lines 609-634: the ordered fallback search for the candidate content.
FindCandidate(t) ==
    IF SearchFencedJson(t).found THEN SearchFencedJson(t)
    ELSE IF SearchArray(t).found THEN SearchArray(t)
    ELSE IF SearchObject(t).found THEN SearchObject(t)
    ELSE WholeTextCandidate(t)

\* Mutant of OnJSONDecodeError: the parse error is not caught.
OnJSONDecodeError_Propagates == Raise
\* Lines 653-655: except json.JSONDecodeError: return [].
OnJSONDecodeError == Return(EmptyList)

\* Lines 642-651: the value returned for a parsed response.
ShapeResponse(ai_response) ==
    IF IsList(ai_response) THEN Return(ai_response)
    ELSE IF IsDict(ai_response) THEN
        IF HasKey(ai_response, KEY_RESULTS)
        THEN Return(GetKey(ai_response, KEY_RESULTS))
        ELSE Return(Node("list", <<ai_response>>))
    ELSE Return(EmptyList)

\* Lines 637-655: parse the candidate content.
ParseCandidate(json_content) ==
    LET r == json_loads(json_content) IN
    IF r.ok THEN ShapeResponse(r.val) ELSE OnJSONDecodeError

\* Lines 603-658.
extract_json_from_text(text) ==
    LET stripped == StripFences(text)
        cand == FindCandidate(stripped)
    IN IF cand.found THEN ParseCandidate(cand.content) ELSE Return(EmptyList)

(***************************************************************************)
(* PART B: the Conversational Run Client and the Batch Scheduler.          *)
(***************************************************************************)
\* Line 240: batch_size = 10.
batch_size == 10
\* Largest number of system summaries handed to _process_batches_with_ai.
MaxSystems == 21
\* Largest max_retries given to _call_ai_with_thread_and_run.
MaxRetries == 3
\* Largest max_retries (poll bound) given to _poll_for_completion.
MaxPolls == 3

MaxTasks == (MaxSystems + batch_size - 1) \div batch_size
Tasks == 1..MaxTasks

\* Run statuses the remote service reports (run_status.status, line 508).
Statuses == {"queued", "in_progress", "completed", "failed", "cancelled", "expired"}

VARIABLES
    text,            \* extractor: the response text (token sequence)
    x_pc,            \* extractor: "off", "ready" or "done"
    x_out,           \* extractor: outcome of _extract_json_from_text
    data,            \* the system summaries, by System Name, in order
    max_retries,     \* parameter of _call_ai_with_thread_and_run
    poll_max,        \* parameter max_retries of _poll_for_completion
    client,          \* self.client as __init__ left it
    m_pc,            \* run(): "off", "run", "loaded", "start", "gather", "done",
                     \*        "analyzed", "ran"
    batches,         \* the batches built at lines 244-249
    batch_results,   \* processed_results of _process_batches_async
    all_results,     \* the list returned by _process_batches_with_ai
    finished,        \* the batch tasks in the order they completed
    pc,              \* per task: the statement the task is at
    retry_count,     \* per task: retry_count of _call_ai_with_thread_and_run
    poll_count,      \* per task: retry_count of _poll_for_completion
    agent_id,        \* per task: agent_id of line 420, 0 for None
    result,          \* per task: result of line 442
    run_status,      \* per task: last status observed on the current run
    never_final,     \* per task: no poll of the current run saw a final status
    call_out,        \* per task: outcome of _call_ai_with_thread_and_run
    task_out,        \* per task: outcome of _call_ai_for_analysis_async
    attempts,        \* per task: iterations of the retry loop entered
    threads_created, \* per task: remote threads created
    polls_issued,    \* per task: client.runs.get calls issued
    agents,          \* remote: the agents list_agents returns, in order
    thread_id,       \* per task: thread_id of line 406, NoId while unbound
    run_id,          \* per task: run_id of line 438, NoId while unbound
    thread_args,     \* per task: thread_id= arguments sent in this attempt
    run_args,        \* per task: run_id= arguments sent in this attempt
    run_target,      \* per task: what runs.create was given to execute
    analysis_results, \* self.analysis_results
    success,         \* run(): what analyze_cloud_deviations returned
    saved,           \* run(): save_analysis_results was invoked
    run_out,         \* what run() returned
    workbook,        \* the workbook save_analysis_results wrote, if any
    stages,          \* run(): the stage methods invoked so far, in order
    loaded,          \* run(): what load_data returned
    process,         \* main(): args.process
    block,           \* main(): the "if run_X_process" block it is at
    main_success,    \* main(): its local success
    invoked,         \* main(): the workflows invoked so far, in order
    outcome,         \* what the stages of each invoked workflow did
    exit_status,     \* the status the process exited with
    ended,           \* how main() ended: "no", "returned", "interrupted", "raised"
    messages,        \* _poll_for_completion: what messages.list returned
    s_pc,            \* _poll_for_completion at line 512: "off", "listed", "returned"
    passed,          \* the message handed to _extract_ai_response
    poll_out,        \* what the poll returned when nothing was handed over
    schedulers,      \* SchedulerManager.schedulers, by workflow name
    k_pc,            \* run_schedulers: "off", "test", "tick", "returned"
    duration,        \* run_schedulers: its parameter
    now,             \* _check_and_execute_schedulers: datetime.now() of the tick
    tick_block,      \* _check_and_execute_schedulers: the check it is at
    executed,        \* what the current tick executed, in order
    stopped,         \* the schedulers stop() was called on
    sched_out,       \* what run_schedulers returned
    files,           \* the two input workbooks of the server data extractor
    d_pc,            \* ServerDataExtractor.run(): "off", a step of RunSteps, "done"
    extraction_params, \* self.extraction_params
    server_data,     \* self.server_data
    filtered_server_data, \* self.filtered_server_data
    system_names_list, \* self.system_names_list
    client_name,     \* self.client_name
    output_file,     \* self.output_file
    steps,           \* the step methods run() has called, with what they returned
    d_out,           \* what ServerDataExtractor.run() returned
    env_data,        \* the caller's environment data handed to validate_data_content
    v_local,         \* validate_data_content: its local name env_data
    v_pc,            \* validate_data_content: "off", "called" or "returned"
    v_out,           \* what validate_data_content returned
    cloud_data,      \* self.cloud_data: the inventory records
    p_pc,            \* _prepare_data_for_analysis: "off", "ready" or "done"
    data_for_analysis \* the summaries _prepare_data_for_analysis returns

extractVars == <<text, x_pc, x_out>>
paramVars == <<data, max_retries, poll_max, client>>
mainVars == <<m_pc, batches, batch_results, all_results>>
callArgs == <<thread_id, run_id, thread_args, run_args, run_target>>
taskVars == <<pc, retry_count, poll_count, agent_id, result, run_status,
              never_final, call_out, task_out, attempts, threads_created,
              polls_issued, finished, callArgs>>
runVars == <<analysis_results, success, saved, run_out, workbook, stages, loaded>>
prepVars == <<cloud_data, p_pc, data_for_analysis>>
cliVars == <<process, block, main_success, invoked, outcome, exit_status, ended>>
selectVars == <<messages, s_pc, passed, poll_out>>
schedVars == <<schedulers, k_pc, duration, now, tick_block, executed, stopped,
               sched_out>>
serverVars == <<files, d_pc, extraction_params, server_data, filtered_server_data,
                system_names_list, client_name, output_file, steps, d_out>>
validVars == <<env_data, v_local, v_pc, v_out>>
toolVars == <<schedVars, serverVars, validVars>>
outerVars == <<cliVars, selectVars, toolVars>>
vars == <<extractVars, paramVars, mainVars, taskVars, agents, runVars, prepVars,
          outerVars>>

(***************************************************************************)
(* Pure pieces of the scheduler.                                           *)
(***************************************************************************)
\* Mutant of Slice: the slice stops one row early.
Slice_DropsLastRow(d, i, n) ==
    SubSeq(d, i + 1, IF i + n - 1 <= Len(d) THEN i + n - 1 ELSE Len(d))
\* data.iloc[i:i+batch_size] for a 0-based offset i.
Slice(d, i, n) ==
    SubSeq(d, i + 1, IF i + n <= Len(d) THEN i + n ELSE Len(d))

\* range(0, len(data), batch_size), line 245.
BatchOffsets(d) == {i \in 0..(Len(d) - 1) : i % batch_size = 0}

\* Lines 244-249: one tuple (prompt, i, batch_size, len(data)) per offset; the
\* prompt embeds the JSON of the rows of the batch.
MakeBatches(d) ==
    [k \in 1..Cardinality(BatchOffsets(d)) |->
        [rows |-> Slice(d, (k - 1) * batch_size, batch_size),
         i |-> (k - 1) * batch_size,
         batch_size |-> batch_size,
         total_records |-> Len(d)]]

\* A result record for one system summary: a dict of the response.
Record(name, verdict) == [System_Name |-> name, Cloud_Config |-> verdict]
\* One record per summary of the batch, in request order.
Echo(rows) == [k \in 1..Len(rows) |-> Record(rows[k], "OK")]
\* A record the batch did not ask for: another System_Name, another verdict
\* and a Reason field.
Unasked(rows) ==
    [System_Name |-> 0 - rows[1] - 1, Cloud_Config |-> "Deviation", Reason |-> "r"]
\* An int and a str as _extract_json_from_text returns them for the value of a
\* "results" key (lines 645-646); a str holds its characters.
PyInt(n) == Node("int", <<n>>)
PyStr(chars) == Node("str", chars)
\* A list that holds an int between two records: json.loads returns it as it
\* is parsed (lines 628-643).
Mixed(rows) == <<Record(rows[1], "OK"), PyInt(2), Record(rows[1], "OK")>>
\* Lines 519 and 642-651: what _extract_ai_response may hand back for a
\* completed run of a batch, whatever the assistant wrote: a list of records
\* (one per summary, all but the last summary, one more than asked for), the
\* empty list, a list of ints, a list of records and an int, or the int or str
\* value of a "results" key.
ResponseValues(rows) ==
    {Node("list", Echo(rows)),
     Node("list", SubSeq(Echo(rows), 1, Len(rows) - 1)),
     Node("list", Append(Echo(rows), Unasked(rows))),
     EmptyList,
     Node("list", <<PyInt(1), PyInt(2)>>),
     Node("list", Mixed(rows)),
     PyInt(1), PyInt(0), PyStr(<<"a", "b", "c">>)}

Returned(val) == [raised |-> FALSE, val |-> val]
Raised == [raised |-> TRUE, val |-> EmptyList]

\* Lines 315-340: what the coroutine of a batch yields for the outcome of its
\* worker call; any Exception is caught and turned into [].
AsyncOutcome(out) == IF out.raised THEN Returned(EmptyList) ELSE out

\* Mutant of ProcessGathered: the results are taken in completion order.
ProcessGathered_AsCompleted(outs) ==
    [k \in 1..Len(outs) |->
        IF outs[finished[k]].raised THEN EmptyList ELSE outs[finished[k]].val]
\* Lines 287-300: gather(return_exceptions=True) keeps the order of the tasks;
\* a task that raised yields [].
ProcessGathered(outs) ==
    [k \in 1..Len(outs) |-> IF outs[k].raised THEN EmptyList ELSE outs[k].val]

\* Mutant of Truthy: any value counts as a result, the empty list included.
Truthy_AnyList(r) == TRUE
\* Lines 257, 258, 263 and 443: the truth value of a result: a list or a str
\* is true unless empty, an int unless 0.
Truthy(r) == IF r.t = "int" THEN r.v # <<0>> ELSE r.v # <<>>
\* An item of a list is a dict (it has keys()) unless it is an int.
IsDictItem(x) == "t" \notin DOMAIN x
\* Lines 256-259: the logging loop of _process_batches_with_ai raises on a
\* true result that has no len() (an int: TypeError at line 257) or that is
\* not empty and whose first item has no keys() (a character of a str, an int
\* of a list: AttributeError at line 259).
LogRaises(r) ==
    /\ Truthy(r)
    /\ \/ r.t = "int"
       \/ Len(r.v) > 0 /\ (r.t = "str" \/ ~IsDictItem(r.v[1]))

\* Lines 262-264: all_results.extend(results) for every results that is true.
RECURSIVE FlattenFrom(_, _)
FlattenFrom(rs, k) ==
    IF k > Len(rs) THEN <<>>
    ELSE (IF Truthy(rs[k]) THEN rs[k].v ELSE <<>>) \o FlattenFrom(rs, k + 1)
Flatten(rs) == FlattenFrom(rs, 1)

(***************************************************************************)
(* Pure pieces of analyze_cloud_deviations and _prepare_data_for_analysis. *)
(***************************************************************************)
\* self.analysis_results: None (line 44) or the DataFrame of line 184.
NoFrame == [is_none |-> TRUE, rows |-> <<>>]
DataFrame(rows) == [is_none |-> FALSE, rows |-> rows]
\* Line 184: pd.DataFrame(list) builds a list whose first item is a dict from
\* the keys() of every item, and raises AttributeError on an item without.
DataFrameRaises(rows) ==
    /\ rows # <<>>
    /\ IsDictItem(rows[1])
    /\ \E k \in 1..Len(rows) : ~IsDictItem(rows[k])
\* Line 184: pd.DataFrame(all_results), the frame or the exception.
pd_DataFrame(rows) ==
    IF DataFrameRaises(rows) THEN Raised ELSE Returned(DataFrame(rows))
\* Mutant of NoResults: an empty result list is not told from a full one.
NoResults_Never(rs) == FALSE
\* Line 179: if not all_results.
NoResults(rs) == rs = <<>>

(***************************************************************************)
(* main.py in run mode and the workflow manager.                           *)
(***************************************************************************)
\* main.py lines 77-120: the workflow blocks in program order.
Workflows == <<"env", "db", "server", "url", "cloud">>
\* main.py line 45: the choices of --process.
Processes == {"env", "db", "server", "url", "cloud", "all"}
\* main.py lines 54-58: run_X_process = args.process in [X, 'all'].
Selected(proc, w) == proc \in {w, "all"}
\* What one stage of a workflow did: it was not reached, raised an Exception,
\* was interrupted by the user (KeyboardInterrupt), or returned a falsy or a
\* truthy value.
NotCalled == "not_called"
Raises == "raises"
Interrupted == "interrupted"
Falsy == "falsy"
TruthyValue == "truthy"
NotRun == [extract |-> NotCalled, save |-> NotCalled, analysis |-> NotCalled]
\* Mutant of workflow_stages: the analysis is run whatever the extraction did.
workflow_stages_AnalysisAlways(e, sv, a) ==
    [extract |-> e,
     save |-> IF e = TruthyValue THEN sv ELSE NotCalled,
     analysis |-> a]
\* workflow_manager.py lines 171-179 (and 45-53, 125-133, 251-259, 331-339):
\* the save is nested in "if X_success", the analysis in "if X_output_file".
workflow_stages(e, sv, a) ==
    [extract |-> e,
     save |-> IF e = TruthyValue THEN sv ELSE NotCalled,
     analysis |-> IF e = TruthyValue /\ sv = TruthyValue THEN a ELSE NotCalled]
\* workflow_manager.py, e.g. lines 161-183: extractor.run(), then
\* save_verified_population_file() if it succeeded, then the analyzer's run()
\* if a file was saved.  An ImportError of a stage's module is a raise.
\* e, sv and a are what the three stages do if they are called.
StageRuns ==
    {workflow_stages(e, sv, a) :
        e, sv, a \in {Raises, Interrupted, Falsy, TruthyValue}}
\* workflow_manager.py, e.g. lines 191-196 and 421-424: the except clauses
\* catch ImportError and Exception; a KeyboardInterrupt raised in a stage leaves
\* run_X_workflow (and run_X_analysis) uncaught.
Interrupts(o) == Interrupted \in {o.extract, o.save, o.analysis}
\* workflow_manager.py lines 392-424: run_X_analysis returns True only if the
\* analyzer's run() returned a truthy value; an exception gives False.
run_analysis(o) == o.analysis = TruthyValue
\* workflow_manager.py lines 152-196 (and 26-70, 106-150, 232-276, 312-356):
\* False if the extractor failed, no file was saved or anything raised; a
\* failed analysis is only logged (lines 179-183) and the workflow returns True.
run_workflow(o) == o.extract = TruthyValue /\ o.save = TruthyValue
\* Every stage of the workflow completed successfully.
AllStagesSucceeded(o) ==
    o.extract = TruthyValue /\ o.save = TruthyValue /\ o.analysis = TruthyValue
\* Mutant of NextBlock: main returns at the first workflow that failed.
NextBlock_HaltOnFailure(k, returned) ==
    IF returned THEN k + 1 ELSE Len(Workflows) + 1
\* main.py lines 77-122: after a block main falls through to the next one
\* whatever the workflow returned; after the last it returns.
NextBlock(k, returned) == k + 1
\* main.py lines 184-186: exit(0 if success else 1).
ExitStatus(ok) == IF ok THEN 0 ELSE 1
\* main.py lines 188-193: a KeyboardInterrupt that leaves main() exits with 0,
\* any other Exception with 1.
ExitOnRaise(how) == IF how = Interrupted THEN 0 ELSE 1
\* How main() ended, by what left it.
EndedBy(how) == IF how = Interrupted THEN "interrupted" ELSE "raised"
\* No exit yet.
NoExit == -1

(***************************************************************************)
(* _poll_for_completion: the choice of the assistant message.              *)
(***************************************************************************)
\* The largest number of messages messages.list returns in the model.
MaxMessages == 3
\* No message was handed to _extract_ai_response.
NoMessage == [role |-> "none", created_at |-> 0]
\* Line 515: [msg for msg in messages if msg.role == "assistant"].
IsAssistant(msg) == msg.role = "assistant"
AssistantMessages(msgs) == SelectSeq(msgs, IsAssistant)
\* Line 519: assistant_messages[-1].
LastOf(list) == list[Len(list)]
\* The threads' message listings: up to MaxMessages messages with distinct
\* creation times, in any order.
Listings ==
    UNION {{l \in [1..n -> [role : {"user", "assistant"}, created_at : 1..MaxMessages]] :
               \A i, j \in 1..n : i # j => l[i].created_at # l[j].created_at} :
           n \in 0..MaxMessages}

(***************************************************************************)
(* scheduler_manager.py: run_schedulers and its ticks.  The Scheduler      *)
(* objects (src/utils/scheduler.py) are known by the attributes and calls  *)
(* the manager uses: running, next_run, stop() and _execute_extraction().  *)
(***************************************************************************)
\* Lines 283-331: the schedulers in the order a tick checks them.
SchedulerNames == <<"environment", "database", "server", "url", "cloud">>
SchedulerSet == {SchedulerNames[k] : k \in 1..Len(SchedulerNames)}
\* The latest time of the model's clock; next_run = NoTime stands for None.
MaxTime == 2
NoTime == 0
\* Line 284: self.schedulers.get(name) of a workflow that was not set up.
NoScheduler == [registered |-> FALSE, running |-> FALSE, next_run |-> NoTime]
\* Mutant of Due: a stopped scheduler is executed as well.
Due_IgnoresRunning(s, t) ==
    s.registered /\ s.next_run # NoTime /\ t >= s.next_run
\* Lines 285, 295, 305, 315, 325: scheduler and scheduler.running and
\* scheduler.next_run and now >= scheduler.next_run.
Due(s, t) ==
    s.registered /\ s.running /\ s.next_run # NoTime /\ t >= s.next_run
\* Lines 239 and 256: any(s.running for s in self.schedulers.values()).
AnyRunning(ss) ==
    \E k \in 1..Len(SchedulerNames) :
        ss[SchedulerNames[k]].registered /\ ss[SchedulerNames[k]].running
\* Scheduler._execute_extraction(): the next run is one interval after this
\* one; past the model's clock there is none.
Rescheduled(s, t) ==
    [s EXCEPT !.next_run = IF t < MaxTime THEN t + 1 ELSE NoTime]
\* Scheduler.stop(): clears the running flag.
Stop(s) == [s EXCEPT !.running = FALSE]
\* Mutant of stop_schedulers: only the first running scheduler is stopped.
stop_schedulers_FirstOnly(ss) ==
    IF AnyRunning(ss)
    THEN LET first == CHOOSE k \in 1..Len(SchedulerNames) :
                 /\ ss[SchedulerNames[k]].registered /\ ss[SchedulerNames[k]].running
                 /\ \A j \in 1..(k - 1) :
                       ~(ss[SchedulerNames[j]].registered /\ ss[SchedulerNames[j]].running)
         IN [ss EXCEPT ![SchedulerNames[first]] = Stop(@)]
    ELSE ss
\* Lines 204-222: stop_schedulers calls stop() on every scheduler that is
\* running.
stop_schedulers(ss) ==
    [n \in DOMAIN ss |-> IF ss[n].registered /\ ss[n].running THEN Stop(ss[n]) ELSE ss[n]]
\* The schedulers stop_schedulers calls stop() on.
StopCalls(ss) == {n \in DOMAIN ss : ss[n].registered /\ ss[n].running}
\* An entry of the log of a tick: the extraction or the analysis of a workflow.
Extraction(n, ok) == [name |-> n, kind |-> "extraction", ok |-> ok]
Analysis(n) == [name |-> n, kind |-> "analysis", ok |-> TRUE]


(***************************************************************************)
(* The server data extractor (server_data_extractor.py).  A spreadsheet    *)
(* text is the sequence of its characters; a cell is a text, a number or   *)
(* NaN (an empty cell).                                                    *)
(***************************************************************************)
Chars == {"a", "L", " ", ","}
MaxParamLen == 3
MaxRows == 2
NaN == [kind |-> "nan", text |-> <<>>]
Number == [kind |-> "number", text |-> <<>>]
Str(s) == [kind |-> "str", text |-> s]
\* pd.notna(cell)
notna(c) == c.kind # "nan"

\* str.strip(): leading and trailing whitespace removed.
RECURSIVE lstrip(_)
lstrip(s) == IF s # <<>> /\ Head(s) = " " THEN lstrip(Tail(s)) ELSE s
RECURSIVE rstrip(_)
rstrip(s) ==
    IF s # <<>> /\ s[Len(s)] = " " THEN rstrip(SubSeq(s, 1, Len(s) - 1)) ELSE s
strip(s) == rstrip(lstrip(s))
\* str.lower()
lower(s) == [i \in 1..Len(s) |-> IF s[i] = "L" THEN "l"
                                 ELSE IF s[i] = "A" THEN "a" ELSE s[i]]
\* str.split(','): the pieces between the commas, empty ones included.
RECURSIVE split(_)
split(s) ==
    IF \A i \in 1..Len(s) : s[i] # "," THEN <<s>>
    ELSE LET k == CHOOSE i \in 1..Len(s) :
                      s[i] = "," /\ \A j \in 1..(i - 1) : s[j] # ","
         IN <<SubSeq(s, 1, k - 1)>> \o split(SubSeq(s, k + 1, Len(s)))
\* Line 161: the literal 'all'; line 164: the literal "All".
AllText == <<"a", "l", "l">>
AllLabel == <<"A", "l", "l">>
\* Line 168: [s.strip() for s in row['System Name'].split(',')].
system_names(t) == [i \in 1..Len(split(t)) |-> strip(split(t)[i])]
\* Mutant of isin: one matching row keeps the whole table.
isin_OneKeepsAll(rows, names) ==
    IF \E k \in 1..Len(rows) : \E i \in 1..Len(names) : names[i] = rows[k].name
    THEN rows ELSE <<>>
\* Line 172: self.server_data[self.server_data['System Name'].isin(names)].
isin(rows, names) ==
    SelectSeq(rows, LAMBDA r : \E i \in 1..Len(names) : names[i] = r.name)

\* A DataFrame that was not read: None.  The parameter sheet has its System
\* Name cells as rows; the server sheet has records with a System Name.
NoTable == [is_none |-> TRUE, has_system |-> FALSE, has_client |-> FALSE,
            columns_ok |-> FALSE, rows |-> <<>>]
ParamTable(hs, hc, rows) ==
    [is_none |-> FALSE, has_system |-> hs, has_client |-> hc,
     columns_ok |-> FALSE, rows |-> rows]
ServerTable(ok, rows) ==
    [is_none |-> FALSE, has_system |-> ok, has_client |-> FALSE,
     columns_ok |-> ok, rows |-> rows]
NoFiles == [state |-> "none", params |-> NoTable, servers |-> NoTable]
\* Lines 36 and 184: self.client_name and self.output_file.
DefaultClient == "Default"
NoOutput == [is_none |-> TRUE, client |-> DefaultClient]
OutputFor(c) == [is_none |-> FALSE, client |-> c]

\* Lines 82-105: _load_data returns False when a file is missing or cannot be
\* read, True once both sheets are read.
load_data(f) == f.state = "ok"
\* Lines 113-139: _validate_data.
validate_data(params, servers) ==
    /\ ~params.is_none /\ ~servers.is_none
    /\ params.rows # <<>>
    /\ servers.rows # <<>>
    /\ params.has_system
    /\ servers.columns_ok
\* Lines 145-150: the client name is taken from the parameters when they have
\* a Client Name column with a row.
extract_client_name(params, c) ==
    IF params.has_client /\ params.rows # <<>> THEN "FromParameters" ELSE c

\* Lines 159-172: the loop of _filter_server_data over the parameter rows,
\* from the extractor's fields st; a cell that is no text raises at line 161.
RECURSIVE filter_rows(_, _, _)
filter_rows(cells, servers, st) ==
    IF cells = <<>> THEN st
    ELSE LET c == Head(cells) IN
         IF ~notna(c) THEN filter_rows(Tail(cells), servers, st)
         ELSE IF c.kind = "number" THEN [st EXCEPT !.raised = TRUE]
         ELSE IF lower(strip(c.text)) = AllText
              THEN [st EXCEPT !.filtered = DataFrame(servers),
                              !.names = <<AllLabel>>]
         ELSE filter_rows(Tail(cells), servers,
                  [st EXCEPT !.names = system_names(c.text),
                             !.filtered = DataFrame(isin(servers,
                                                         system_names(c.text)))])
\* Lines 174-178: what _filter_server_data returns.
filter_returns(filtered) == ~filtered.is_none /\ filtered.rows # <<>>

\* Lines 48-66: the steps of run() in order.
RunSteps == <<"load", "validate", "client", "filter", "path">>
\* Mutant of NextStep: a step that returned False does not end run().
NextStep_IgnoresFailure(k, ok) ==
    IF k < Len(RunSteps) THEN RunSteps[k + 1] ELSE "done"
\* Lines 50-51, 54-55, 61-62 and 67: run() returns after a step that returned
\* False and after the last step, and goes on to the next step otherwise.
NextStep(k, ok) ==
    IF ok /\ k < Len(RunSteps) THEN RunSteps[k + 1] ELSE "done"
Step(k, ok) == [step |-> RunSteps[k], ok |-> ok]

\* validate_data_content (utils/validation.py): a record of the environment
\* data has an Env-ID and a System Name, either of which may be missing.
NoEnvData == [has_columns |-> FALSE, rows |-> <<>>]
NoVerdict == [ok |-> FALSE, message |-> "none"]
Verdict(ok, msg) == [ok |-> ok, message |-> msg]
\* Line 66: env_data.dropna(subset=['Env-ID', 'System Name']).
dropna(rows) == SelectSeq(rows, LAMBDA r : r.env_id /\ r.system_name)
\* Line 64: isnull().any() on either column.
any_null(rows) == \E i \in 1..Len(rows) : ~rows[i].env_id \/ ~rows[i].system_name
\* Lines 56-71: the result of validate_data_content.
validate_data_content(params_ok, env) ==
    IF ~params_ok THEN Verdict(FALSE, "no parameter columns")
    ELSE IF ~env.has_columns THEN Verdict(FALSE, "no register columns")
    ELSE IF any_null(env.rows)
         THEN IF dropna(env.rows) = <<>>
              THEN Verdict(FALSE, "all records have missing values")
              ELSE Verdict(TRUE, "some records were filtered out")
    ELSE Verdict(TRUE, "validated")

\* self.client after a failed client initialisation (line 80), and after a
\* successful one (lines 72-76).
NoClient == "None"
AgentsClient == "AgentsClient"
\* Lines 55-80: __init__ raises EnvironmentError when a required environment
\* variable is missing; an exception while the client is built is caught and
\* leaves self.client = None.
Construct(env_missing, client_init_raises) ==
    IF env_missing THEN [raised |-> TRUE, client |-> NoClient]
    ELSE [raised |-> FALSE,
          client |-> IF client_init_raises THEN NoClient ELSE AgentsClient]
\* The analyzer was constructed with its settings present and its client built.
ClientReady == client = Construct(FALSE, FALSE).client

\* Lines 717-727: the record counts of the metadata sheet.
CountConfig(rows, verdict) ==
    Cardinality({k \in 1..Len(rows) : rows[k].Cloud_Config = verdict})
\* Mutant of create_metadata: the unknown records are those marked "Unknown".
create_metadata_UnknownByName(ar) ==
    [total_records_analyzed |-> Len(ar.rows),
     exception_records |-> CountConfig(ar.rows, "Deviation"),
     ok_records |-> CountConfig(ar.rows, "OK"),
     unknown_records |-> CountConfig(ar.rows, "Unknown")]
\* Lines 707-755: _create_metadata(), the entries computed from the results.
create_metadata(ar) ==
    LET total_records == IF ar.is_none \/ ar.rows = <<>> THEN 0 ELSE Len(ar.rows)
        exception_records == CountConfig(ar.rows, "Deviation")
        ok_records == CountConfig(ar.rows, "OK")
    IN [total_records_analyzed |-> total_records,
        exception_records |-> exception_records,
        ok_records |-> ok_records,
        unknown_records |-> total_records - exception_records - ok_records]
\* Lines 686-698: the three sheets of the output workbook.
Workbook(ar) ==
    [sheets |-> <<"Cloud_Resource_Inventory", "Cloud_Resource_Deviation_Analysis",
                  "Metadata">>,
     metadata |-> create_metadata(ar)]
\* save_analysis_results returned None: no workbook was written.
NoWorkbook == [sheets |-> <<>>, metadata |-> create_metadata(NoFrame)]
\* Mutant of RunReturn: run() reports success whatever the save returned.
RunReturn_AlwaysTrue(output) == TRUE
\* Lines 780-786: run() returns False if save_analysis_results returned None.
RunReturn(output) == output # NoWorkbook
\* The stage methods of run(), lines 768, 774 and 780.
RunStages == <<"load_data", "analyze_cloud_deviations", "save_analysis_results">>

\* The values of the columns System Name and Environment Type of the inventory.
\* A system name is an opaque key, which the model numbers from 1; BlankName
\* is the float NaN that read_excel (line 141) gives for a blank cell of the
\* column, which load_data accepts (lines 149-153 check the columns only).
BlankName == 0
SystemNames == {1, 2, BlankName}
EnvTypes == {"DEV", "TEST", "PROD", "QA", "dev"}
InventoryRows == [System_Name : SystemNames, Environment_Type : EnvTypes]
\* Largest number of inventory records given to _prepare_data_for_analysis.
MaxRecords == 3

\* Series.unique(): the distinct values in order of first appearance.
RECURSIVE UniqueFrom(_, _, _)
UniqueFrom(col, k, acc) ==
    IF k > Len(col) THEN acc
    ELSE UniqueFrom(col, k + 1,
                    IF \E j \in 1..Len(acc) : acc[j] = col[k]
                    THEN acc ELSE Append(acc, col[k]))
\* Series.unique() (lines 202 and 210) holds NaN once, like any other value.
Unique(col) == UniqueFrom(col, 1, <<>>)
\* Line 207: the elementwise == of a column and a value; NaN equals nothing,
\* itself included.
eq(cell, value) == cell # BlankName /\ value # BlankName /\ cell = value
\* Line 207: self.cloud_data[self.cloud_data['System Name'] == system].
SystemData(cd, system) ==
    LET OfSystem(r) == eq(r.System_Name, system) IN SelectSeq(cd, OfSystem)
\* Line 210: system_data['Environment Type'].unique().tolist().
EnvironmentTypesOf(system_data) ==
    Unique([k \in 1..Len(system_data) |-> system_data[k].Environment_Type])
\* Lines 213-215: 'DEV' in environment_types.
In(x, list) == \E k \in 1..Len(list) : list[k] = x
\* Lines 207-223: the summary of one system.
Summary(cd, system) ==
    LET environment_types == EnvironmentTypesOf(SystemData(cd, system)) IN
    [System_Name |-> system,
     Environment_Types |-> environment_types,
     Has_DEV |-> In("DEV", environment_types),
     Has_TEST |-> In("TEST", environment_types),
     Has_PROD |-> In("PROD", environment_types)]
\* Lines 202-225: one summary per distinct system name, in order of appearance.
prepare_data_for_analysis(cd) ==
    LET systems == Unique([k \in 1..Len(cd) |-> cd[k].System_Name]) IN
    [k \in 1..Len(systems) |-> Summary(cd, systems[k])]
\* The summaries handed to _process_batches_with_ai (line 177), known by their
\* System Name.
SummaryNames(dfa) == [k \in 1..Len(dfa) |-> dfa[k].System_Name]
\* The largest number of records of a sheet load_data reads in the model.
MaxSheet == 2
\* The sheets load_data may read in the model: up to MaxSheet records, of
\* system 1 or without a system name.
RunInventories ==
    UNION {[1..n -> [System_Name : {1, BlankName}, Environment_Type : {"DEV"}]] :
           n \in 0..MaxSheet}
\* Lines 132-145: self.cloud_data after load_data: the sheet if line 141 was
\* reached (read), else what it was.
load_data_sheet(cd, read, sheet) == IF read THEN sheet ELSE cd
\* Lines 120-158: load_data returns True if the sheet was read and holds the
\* required columns (ok).
load_data_returns(read, ok) == read /\ ok
\* An inventory of n systems with one record each.
OneRecordEach(n) == [k \in 1..n |-> [System_Name |-> k, Environment_Type |-> "DEV"]]

(***************************************************************************)
(* Pure pieces of the run client.                                          *)
(***************************************************************************)
\* Mutant of WhileRetry: the loop test lets one more attempt through.
WhileRetry_OffByOne(rc, R) == rc <= R
\* Line 402: while retry_count < max_retries.
WhileRetry(rc, R) == rc < R
\* Line 453: if retry_count < max_retries (sleep before the next attempt).
SleepBeforeRetry(rc, R) == rc < R
\* Mutant of WhilePoll: the poll loop test lets one more poll through.
WhilePoll_OffByOne(n, P) == n <= P
\* Line 505: while retry_count < max_retries, in _poll_for_completion.
WhilePoll(n, P) == n < P
\* Mutant of SleepAfterPollError: the handler sleeps after every poll that raised.
SleepAfterPollError_Always(n, P) == TRUE
\* Line 533: if retry_count < max_retries (sleep after a poll that raised).
SleepAfterPollError(n, P) == n < P
\* Line 523: the run statuses that end the attempt.
TerminalStatuses == {"failed", "cancelled", "expired"}
\* Mutant of IsTerminalFailure: only "failed" ends the attempt.
IsTerminalFailure_OnlyFailed(st) == st = "failed"
IsTerminalFailure(st) == st \in TerminalStatuses
\* Mutant of AllRetriesFailed: when the retries are used up the call returns
\* records all the same.
AllRetriesFailed_WithRecords == Returned(Node("list", Echo(data)))
\* Lines 457-459: all retries failed.
AllRetriesFailed == Returned(EmptyList)


\* Thread and run ids are opaque names the service makes up, a new one for
\* every thread it creates. The model names a thread after its creation: <<b, k>>
\* is the k-th thread the service created for a call of task b.
NoId == <<0, 0>>
\* thread_response.id (line 406).
IssueThreadId(b) == <<b, threads_created[b] + 1>>
\* run_response.id (line 438): the service names a run after the thread it is
\* created on; a thread is given one run at most, so no two runs share a name.
IssueRunId(tid) == tid
\* Mutant of ThreadArg: the thread id is kept in one place shared by all tasks.
ThreadArg_Shared(b) == thread_id[1]
\* The thread_id= argument of lines 414, 427, 434 and 442: the local thread_id.
ThreadArg(b) == thread_id[b]
\* The run_id= argument of line 442: the local run_id.
RunArg(b) == run_id[b]
\* Mutant of RunTarget: the run is always created with the model deployment.
RunTarget_AlwaysModel(aid) == [kind |-> "model", id |-> 0]
\* Lines 423-436: runs.create(agent_id=agent_id) if agent_id is truthy, else
\* runs.create(model=AGENT_MODEL_DEPLOYMENT_NAME).
RunTarget(aid) ==
    IF aid # 0 THEN [kind |-> "agent_id", id |-> aid]
    ELSE [kind |-> "model", id |-> 0]
NoTarget == [kind |-> "none", id |-> 0]

PollPcs == {"runs_get", "messages_list", "poll_sleep", "poll_exc_sleep"}
AttemptPcs == {"threads_create", "messages_create", "list_agents", "create_agent",
               "runs_create", "poll_returned", "backoff_sleep"} \cup PollPcs

(***************************************************************************)
(* Control-flow fragments of a batch task b. Each says what becomes of the *)
(* locals of the task: pc, retry_count, call_out, poll_count, result,      *)
(* run_status, never_final and agent_id.                                   *)
(***************************************************************************)
attemptLocals == <<poll_count, result, run_status, never_final, agent_id>>

ClearAttemptLocals(b) ==
    /\ poll_count' = [poll_count EXCEPT ![b] = 0]
    /\ result' = [result EXCEPT ![b] = EmptyList]
    /\ run_status' = [run_status EXCEPT ![b] = "none"]
    /\ never_final' = [never_final EXCEPT ![b] = FALSE]
    /\ agent_id' = [agent_id EXCEPT ![b] = 0]
    /\ thread_id' = [thread_id EXCEPT ![b] = NoId]
    /\ run_id' = [run_id EXCEPT ![b] = NoId]
    /\ thread_args' = [thread_args EXCEPT ![b] = {}]
    /\ run_args' = [run_args EXCEPT ![b] = {}]
    /\ run_target' = [run_target EXCEPT ![b] = NoTarget]

\* Line 402 with retry_count = rc: enter the next attempt, or leave the loop
\* and return [] (lines 457-459).
LoopOrReturn(b, rc) ==
    /\ retry_count' = [retry_count EXCEPT ![b] = rc]
    /\ ClearAttemptLocals(b)
    /\ IF WhileRetry(rc, max_retries)
       THEN /\ pc' = [pc EXCEPT ![b] = "threads_create"]
            /\ UNCHANGED call_out
       ELSE /\ pc' = [pc EXCEPT ![b] = "returned"]
            /\ call_out' = [call_out EXCEPT ![b] = AllRetriesFailed]

\* Lines 450-455: an exception raised in the attempt by a call of the client
\* that was handed the thread ids targs and the run target target.
CallRaised(b, targs, target) ==
    IF SleepBeforeRetry(retry_count[b] + 1, max_retries)
    THEN /\ retry_count' = [retry_count EXCEPT ![b] = @ + 1]
         /\ pc' = [pc EXCEPT ![b] = "backoff_sleep"]
         /\ thread_args' = [thread_args EXCEPT ![b] = @ \cup targs]
         /\ run_target' = [run_target EXCEPT ![b] = target]
         /\ UNCHANGED <<call_out, attemptLocals, thread_id, run_id, run_args>>
    ELSE LoopOrReturn(b, retry_count[b] + 1)
\* Lines 450-455: an exception raised in the attempt before any argument was
\* handed to the service.
AttemptRaised(b) == CallRaised(b, {}, run_target[b])

\* Line 505 with the poll counter = n: poll again, or time out (lines 536-537).
PollLoop(b, n) ==
    /\ poll_count' = [poll_count EXCEPT ![b] = n]
    /\ IF WhilePoll(n, poll_max)
       THEN /\ pc' = [pc EXCEPT ![b] = "runs_get"]
            /\ UNCHANGED result
       ELSE /\ pc' = [pc EXCEPT ![b] = "poll_returned"]
            /\ result' = [result EXCEPT ![b] = EmptyList]

\* Mutant of PollRaised: the handler forgets to count the failed poll.
PollRaised_NotCounted(b) ==
    /\ pc' = [pc EXCEPT ![b] = "poll_exc_sleep"]
    /\ UNCHANGED <<poll_count, result>>

\* Lines 530-534: an exception raised inside the poll loop.
PollRaised(b) ==
    IF SleepAfterPollError(poll_count[b] + 1, poll_max)
    THEN /\ poll_count' = [poll_count EXCEPT ![b] = @ + 1]
         /\ pc' = [pc EXCEPT ![b] = "poll_exc_sleep"]
         /\ UNCHANGED result
    ELSE PollLoop(b, poll_count[b] + 1)

\* Mutant of PollReturn: the result list is one object shared by the tasks.
PollReturn_SharedResult(b, r) ==
    /\ pc' = [pc EXCEPT ![b] = "poll_returned"]
    /\ result' = [c \in Tasks |-> r]
    /\ UNCHANGED poll_count
\* A return statement of _poll_for_completion (lines 519, 522, 525).
PollReturn(b, r) ==
    /\ pc' = [pc EXCEPT ![b] = "poll_returned"]
    /\ result' = [result EXCEPT ![b] = r]
    /\ UNCHANGED poll_count

\* Mutant of RegisterAgent: creation is get-or-create, so a second creator adds
\* nothing.
RegisterAgent_GetOrCreate(ags) == IF ags = <<>> THEN <<1>> ELSE ags
\* client.create_agent on the remote side: one more agent, with a fresh id.
RegisterAgent(ags) == Append(ags, Len(ags) + 1)

(***************************************************************************)
(* Actions.                                                                *)
(***************************************************************************)
\* Lines 237-252 and 279-284: build the batches and create one task per batch.
StartBatches ==
    /\ m_pc = "start"
    /\ batches' = MakeBatches(data)
    /\ pc' = [b \in Tasks |-> IF b <= Len(batches') THEN "created" ELSE "unused"]
    /\ m_pc' = "gather"
    /\ UNCHANGED <<outerVars, extractVars, prepVars, runVars, paramVars, batch_results,
                   all_results, finished, retry_count, call_out, attemptLocals,
                   callArgs, task_out, attempts, threads_created, polls_issued,
                   agents>>

\* Mutant of MayStart: a task starts only when the tasks created before it are
\* over.
MayStart_AfterEarlierDone(b) == \A c \in Tasks : c < b => pc[c] = "done"
\* Lines 281-287 and 327-335: the event loop runs the tasks in creation order;
\* a task gives up the loop as soon as it awaits the future of its worker
\* thread, so the next task starts while the earlier calls are under way.
MayStart(b) == \A c \in Tasks : c < b => pc[c] # "created"

\* Lines 315-335 and 401-402: the event loop starts the tasks in creation order;
\* each submits its call to a worker thread of its own, which enters the loop.
TaskStart(b) ==
    /\ m_pc = "gather"
    /\ pc[b] = "created"
    /\ MayStart(b)
    /\ LoopOrReturn(b, 0)
    /\ UNCHANGED <<outerVars, extractVars, prepVars, runVars, paramVars, mainVars,
                   finished, task_out, attempts,
                   threads_created, polls_issued, agents>>

\* Lines 404-407: client.threads.create(), the first call of an attempt; on a
\* client of None the attribute access raises.
ThreadsCreate(b) ==
    /\ pc[b] = "threads_create"
    /\ attempts' = [attempts EXCEPT ![b] = @ + 1]
    /\ \/ /\ client # NoClient
          /\ threads_created' = [threads_created EXCEPT ![b] = @ + 1]
          /\ thread_id' = [thread_id EXCEPT ![b] = IssueThreadId(b)]
          /\ pc' = [pc EXCEPT ![b] = "messages_create"]
          /\ UNCHANGED <<retry_count, call_out, attemptLocals, run_id,
                         thread_args, run_args, run_target>>
       \/ /\ AttemptRaised(b)
          /\ UNCHANGED threads_created
    /\ UNCHANGED <<outerVars, extractVars, prepVars, runVars, paramVars, mainVars,
                   finished, task_out,
                   polls_issued, agents>>

\* Lines 413-417: client.messages.create(thread_id=thread_id, ...) returns or
\* raises; either way the service was handed the thread id.
MessagesCreate(b) ==
    /\ pc[b] = "messages_create"
    /\ \/ /\ pc' = [pc EXCEPT ![b] = "list_agents"]
          /\ thread_args' = [thread_args EXCEPT ![b] = @ \cup {ThreadArg(b)}]
          /\ UNCHANGED <<retry_count, call_out, attemptLocals, thread_id,
                         run_id, run_args, run_target>>
       \/ CallRaised(b, {ThreadArg(b)}, run_target[b])
    /\ UNCHANGED <<outerVars, extractVars, prepVars, runVars, paramVars, mainVars,
                   finished, task_out, attempts,
                   threads_created, polls_issued, agents>>

\* Lines 468-474 and 482-488: list the agents; use the first one, go on to create
\* one if there is none, fall back to None if the call raises.
ListAgents(b) ==
    /\ pc[b] = "list_agents"
    /\ \/ IF agents = <<>>
          THEN /\ pc' = [pc EXCEPT ![b] = "create_agent"]
               /\ UNCHANGED agent_id
          ELSE /\ pc' = [pc EXCEPT ![b] = "runs_create"]
               /\ agent_id' = [agent_id EXCEPT ![b] = agents[1]]
       \/ /\ pc' = [pc EXCEPT ![b] = "runs_create"]
          /\ agent_id' = [agent_id EXCEPT ![b] = 0]
    /\ UNCHANGED <<outerVars, extractVars, prepVars, runVars, paramVars, mainVars,
                   finished,
                   retry_count, call_out, poll_count, result, run_status,
                   never_final, callArgs, task_out, attempts, threads_created,
                   polls_issued, agents>>

\* Lines 475-481 and 486-488: create an agent and use it; None if the call raises.
CreateAgent(b) ==
    /\ pc[b] = "create_agent"
    /\ \/ /\ agents' = RegisterAgent(agents)
          /\ agent_id' = [agent_id EXCEPT ![b] = agents'[Len(agents')]]
       \/ /\ agent_id' = [agent_id EXCEPT ![b] = 0]
          /\ UNCHANGED agents
    /\ pc' = [pc EXCEPT ![b] = "runs_create"]
    /\ UNCHANGED <<outerVars, extractVars, prepVars, runVars, paramVars, mainVars,
                   finished,
                   retry_count, call_out, poll_count, result, run_status,
                   never_final, callArgs, task_out, attempts, threads_created,
                   polls_issued>>

\* Lines 422-442 and 503-505: client.runs.create(...) with the thread id and the
\* target, then enter the poll loop; or the call raises with the same arguments.
RunsCreate(b) ==
    /\ pc[b] = "runs_create"
    /\ \/ /\ PollLoop(b, 0)
          /\ run_status' = [run_status EXCEPT ![b] = "none"]
          /\ never_final' = [never_final EXCEPT ![b] = TRUE]
          /\ thread_args' = [thread_args EXCEPT ![b] = @ \cup {ThreadArg(b)}]
          /\ run_target' = [run_target EXCEPT ![b] = RunTarget(agent_id[b])]
          /\ run_id' = [run_id EXCEPT ![b] = IssueRunId(ThreadArg(b))]
          /\ UNCHANGED <<retry_count, call_out, agent_id, thread_id, run_args>>
       \/ CallRaised(b, {ThreadArg(b)}, RunTarget(agent_id[b]))
    /\ UNCHANGED <<outerVars, extractVars, prepVars, runVars, paramVars, mainVars,
                   finished, task_out, attempts,
                   threads_created, polls_issued, agents>>

\* Lines 506-510 and 523-525: client.runs.get(...) and the branch on the status.
RunsGet(b) ==
    /\ pc[b] = "runs_get"
    /\ polls_issued' = [polls_issued EXCEPT ![b] = @ + 1]
    /\ thread_args' = [thread_args EXCEPT ![b] = @ \cup {ThreadArg(b)}]
    /\ run_args' = [run_args EXCEPT ![b] = @ \cup {RunArg(b)}]
    /\ \/ \E st \in Statuses :
            /\ run_status' = [run_status EXCEPT ![b] = st]
            /\ never_final' = [never_final EXCEPT ![b] =
                                 @ /\ st \notin {"completed"} \cup TerminalStatuses]
            /\ IF st = "completed"
               THEN /\ pc' = [pc EXCEPT ![b] = "messages_list"]
                    /\ UNCHANGED <<poll_count, result>>
               ELSE IF IsTerminalFailure(st)
               THEN PollReturn(b, EmptyList)
               ELSE /\ pc' = [pc EXCEPT ![b] = "poll_sleep"]
                    /\ UNCHANGED <<poll_count, result>>
       \/ /\ PollRaised(b)
          /\ UNCHANGED <<run_status, never_final>>
    /\ UNCHANGED <<outerVars, extractVars, prepVars, runVars, paramVars, mainVars,
                   finished,
                   retry_count, call_out, agent_id, thread_id, run_id, run_target,
                   task_out, attempts, threads_created, agents>>

\* Lines 527-529: time.sleep(retry_interval); retry_count += 1.
PollSleep(b) ==
    /\ pc[b] = "poll_sleep"
    /\ PollLoop(b, poll_count[b] + 1)
    /\ UNCHANGED <<outerVars, extractVars, prepVars, runVars, paramVars, mainVars,
                   finished,
                   retry_count, call_out, agent_id, run_status, never_final,
                   callArgs, task_out, attempts, threads_created, polls_issued,
                   agents>>

\* Line 534: time.sleep(retry_interval) after a poll that raised.
PollErrorSleep(b) ==
    /\ pc[b] = "poll_exc_sleep"
    /\ PollLoop(b, poll_count[b])
    /\ UNCHANGED <<outerVars, extractVars, prepVars, runVars, paramVars, mainVars,
                   finished,
                   retry_count, call_out, agent_id, run_status, never_final,
                   callArgs, task_out, attempts, threads_created, polls_issued,
                   agents>>

\* Lines 511-522: client.messages.list(...) raises, or there is no assistant
\* message and [] is returned (line 522), or whatever _extract_ai_response
\* makes of the last assistant message is returned as it is (line 519).
MessagesList(b) ==
    /\ pc[b] = "messages_list"
    /\ \/ PollRaised(b)
       \/ PollReturn(b, EmptyList)
       \/ \E r \in ResponseValues(batches[b].rows) : PollReturn(b, r)
    /\ thread_args' = [thread_args EXCEPT ![b] = @ \cup {ThreadArg(b)}]
    /\ UNCHANGED <<outerVars, extractVars, prepVars, runVars, paramVars, mainVars,
                   finished,
                   retry_count, call_out, agent_id, run_status, never_final,
                   thread_id, run_id, run_args, run_target, task_out, attempts,
                   threads_created, polls_issued, agents>>

\* Lines 442-448: back in _call_ai_with_thread_and_run with the poll result.
PollReturned(b) ==
    /\ pc[b] = "poll_returned"
    /\ IF Truthy(result[b])
       THEN /\ pc' = [pc EXCEPT ![b] = "returned"]
            /\ call_out' = [call_out EXCEPT ![b] = Returned(result[b])]
            /\ ClearAttemptLocals(b)
            /\ UNCHANGED retry_count
       ELSE LoopOrReturn(b, retry_count[b] + 1)
    /\ UNCHANGED <<outerVars, extractVars, prepVars, runVars, paramVars, mainVars,
                   finished, task_out, attempts,
                   threads_created, polls_issued, agents>>

\* Line 455: time.sleep(2), then the loop test of line 402.
BackoffSleep(b) ==
    /\ pc[b] = "backoff_sleep"
    /\ LoopOrReturn(b, retry_count[b])
    /\ UNCHANGED <<outerVars, extractVars, prepVars, runVars, paramVars, mainVars,
                   finished, task_out, attempts,
                   threads_created, polls_issued, agents>>

\* Lines 335-340: the worker call is over; the coroutine of the batch ends.
TaskFinish(b) ==
    /\ pc[b] = "returned"
    /\ pc' = [pc EXCEPT ![b] = "done"]
    /\ task_out' = [task_out EXCEPT ![b] = AsyncOutcome(call_out[b])]
    /\ finished' = Append(finished, b)
    /\ UNCHANGED <<outerVars, extractVars, prepVars, runVars, paramVars, mainVars,
                   retry_count,
                   call_out, attemptLocals, callArgs, attempts, threads_created,
                   polls_issued, agents>>

\* Lines 287-300 and 254-267: every task is over; gather, process, log and
\* flatten. An exception of the logging loop leaves _process_batches_with_ai
\* before anything is flattened.
Gather ==
    /\ m_pc = "gather"
    /\ \A b \in 1..Len(batches) : pc[b] = "done"
    /\ batch_results' = ProcessGathered([k \in 1..Len(batches) |-> task_out[k]])
    /\ IF \E k \in 1..Len(batch_results') : LogRaises(batch_results'[k])
       THEN all_results' = <<>> /\ m_pc' = "raised"
       ELSE all_results' = Flatten(batch_results') /\ m_pc' = "done"
    /\ UNCHANGED <<outerVars, extractVars, prepVars, runVars, paramVars, batches, taskVars,
                   agents>>

\* Lines 177-192: analyze_cloud_deviations with the list returned by
\* _process_batches_with_ai, or with the exception it raised, which line 189
\* catches as it does the one pd.DataFrame raises at line 184. (Lines 179-181
\* return False for the empty result list.)
AnalyzeDeviations ==
    /\ m_pc \in {"done", "raised"}
    /\ LET frame == pd_DataFrame(all_results) IN
       IF m_pc = "raised" \/ NoResults(all_results) \/ frame.raised
       THEN /\ success' = FALSE
            /\ UNCHANGED analysis_results
       ELSE /\ analysis_results' = frame.val
            /\ success' = TRUE
    /\ m_pc' = "analyzed"
    /\ UNCHANGED <<outerVars, extractVars, prepVars, paramVars, batches, batch_results,
                   all_results, taskVars, agents, saved, run_out, workbook,
                   stages, loaded>>

\* Lines 774-786: run() after analyze_cloud_deviations: return False, or call
\* save_analysis_results and return whether it yielded an output file.
RunFinish ==
    /\ m_pc = "analyzed"
    /\ IF ~success
       THEN /\ run_out' = FALSE
            /\ UNCHANGED <<saved, workbook, stages>>
       ELSE /\ saved' = TRUE
            /\ stages' = Append(stages, RunStages[3])
            /\ \E written \in BOOLEAN :
                  workbook' = IF written THEN Workbook(analysis_results)
                              ELSE NoWorkbook
            /\ run_out' = RunReturn(workbook')
    /\ m_pc' = "ran"
    /\ UNCHANGED <<outerVars, extractVars, prepVars, paramVars, batches, batch_results,
                   all_results, taskVars, agents, analysis_results, success,
                   loaded>>

\* Lines 764-771 and 120-158: run() calls load_data, which reads the sheet into
\* self.cloud_data unless the file or the sheet is missing or unreadable, and
\* returns True if the frame has the required columns; on False run() returns
\* False.
RunLoad ==
    /\ m_pc = "run"
    /\ stages' = Append(stages, RunStages[1])
    /\ \E read, ok \in BOOLEAN : \E sheet \in RunInventories :
          /\ cloud_data' = load_data_sheet(cloud_data, read, sheet)
          /\ loaded' = load_data_returns(read, ok)
          /\ IF loaded' THEN m_pc' = "loaded" /\ UNCHANGED run_out
                        ELSE m_pc' = "ran" /\ run_out' = FALSE
    /\ UNCHANGED <<outerVars, extractVars, p_pc, data_for_analysis, paramVars,
                   batches, batch_results,
                   all_results, taskVars, agents, analysis_results, success,
                   saved, workbook>>

\* Lines 774 and 168-177: run() calls analyze_cloud_deviations, which returns
\* False if self.cloud_data is None or empty and else computes the summaries
\* with _prepare_data_for_analysis and hands them to _process_batches_with_ai.
AnalyzeBegin ==
    /\ m_pc = "loaded"
    /\ stages' = Append(stages, RunStages[2])
    /\ IF cloud_data = <<>>
       THEN /\ m_pc' = "analyzed" /\ success' = FALSE
            /\ UNCHANGED <<data_for_analysis, data>>
       ELSE /\ data_for_analysis' = prepare_data_for_analysis(cloud_data)
            /\ data' = SummaryNames(data_for_analysis')
            /\ m_pc' = "start" /\ UNCHANGED success
    /\ UNCHANGED <<outerVars, extractVars, cloud_data, p_pc, max_retries, poll_max,
                   client, batches, batch_results,
                   all_results, taskVars, agents, analysis_results, saved,
                   run_out, workbook, loaded>>

\* Lines 194-225: _prepare_data_for_analysis().
PrepareData ==
    /\ p_pc = "ready"
    /\ data_for_analysis' = prepare_data_for_analysis(cloud_data)
    /\ p_pc' = "done"
    /\ UNCHANGED <<outerVars, extractVars, cloud_data, runVars, paramVars, mainVars,
                   taskVars, agents>>

\* Lines 593-658: _extract_json_from_text(text).
ExtractJson ==
    /\ x_pc = "ready"
    /\ x_out' = extract_json_from_text(text)
    /\ x_pc' = "done"
    /\ UNCHANGED <<outerVars, text, prepVars, runVars, paramVars, mainVars, taskVars, agents>>

\* main.py lines 61-72 and 188-193: in run mode main() imports the workflow
\* manager and constructs it (workflow_manager.py lines 10-24, os.makedirs may
\* raise).  An Exception or a KeyboardInterrupt here leaves main() before any
\* workflow and the process exits with 1 or 0.
MainStart ==
    /\ block = 0 /\ ended = "no"
    /\ \E how \in {TruthyValue, Raises, Interrupted} :
          IF how = TruthyValue
          THEN block' = 1 /\ UNCHANGED <<exit_status, ended>>
          ELSE /\ block' = Len(Workflows) + 2
               /\ ended' = EndedBy(how)
               /\ exit_status' = ExitOnRaise(how)
    /\ UNCHANGED <<process, main_success, invoked, outcome, selectVars, toolVars,
                   extractVars, prepVars, runVars, paramVars, mainVars,
                   taskVars, agents>>

\* main.py lines 77-120, one "if run_X_process" block: a selected workflow is
\* invoked (workflow_manager.py run_X_workflow, which catches every Exception)
\* and a False return clears success.  A KeyboardInterrupt in one of the
\* workflow's stages leaves the workflow and main(), and lines 188-190 exit
\* with 0.
MainBlock ==
    /\ block \in 1..Len(Workflows)
    /\ LET w == Workflows[block] IN
       IF Selected(process, w)
       THEN \E o \in StageRuns :
              /\ invoked' = Append(invoked, w)
              /\ outcome' = [outcome EXCEPT ![w] = o]
              /\ IF Interrupts(o)
                 THEN /\ block' = Len(Workflows) + 2
                      /\ ended' = EndedBy(Interrupted)
                      /\ exit_status' = ExitOnRaise(Interrupted)
                      /\ UNCHANGED main_success
                 ELSE /\ main_success' =
                            IF ~run_workflow(o) THEN FALSE ELSE main_success
                      /\ block' = NextBlock(block, run_workflow(o))
                      /\ UNCHANGED <<exit_status, ended>>
       ELSE /\ block' = block + 1
            /\ UNCHANGED <<invoked, outcome, main_success, exit_status, ended>>
    /\ UNCHANGED <<process, selectVars, toolVars, extractVars, prepVars,
                   runVars, paramVars, mainVars, taskVars, agents>>

\* main.py lines 122 and 184-186: return success; exit(0 if success else 1).
MainExit ==
    /\ block = Len(Workflows) + 1
    /\ exit_status' = ExitStatus(main_success)
    /\ ended' = "returned"
    /\ block' = Len(Workflows) + 2
    /\ UNCHANGED <<process, main_success, invoked, outcome, selectVars, toolVars,
                   extractVars, prepVars, runVars, paramVars, mainVars,
                   taskVars, agents>>

\* Lines 510-522: on status "completed" the last assistant message of the
\* listing goes to _extract_ai_response; without one the poll returns [].
SelectAssistant ==
    /\ s_pc = "listed"
    /\ LET assistant_messages == AssistantMessages(messages) IN
       IF assistant_messages # <<>>
       THEN passed' = LastOf(assistant_messages) /\ UNCHANGED poll_out
       ELSE poll_out' = <<>> /\ UNCHANGED passed
    /\ s_pc' = "returned"
    /\ UNCHANGED <<messages, cliVars, toolVars, extractVars, prepVars, runVars, paramVars,
                   mainVars, taskVars, agents>>

\* The analyzer, main() and the poll's message choice are left alone.
SchedFrame ==
    UNCHANGED <<cliVars, selectVars, serverVars, validVars, extractVars, prepVars, runVars, paramVars,
                mainVars, taskVars, agents>>

\* Lines 250, 265, 269-271 and 274-275: run_schedulers returns ret, after
\* stop_schedulers on the schedulers ss if stops.
SchedReturn(ss, stops, ret) ==
    /\ schedulers' = IF stops THEN stop_schedulers(ss) ELSE ss
    /\ stopped' = IF stops THEN stopped \cup StopCalls(ss) ELSE stopped
    /\ sched_out' = ret
    /\ k_pc' = "returned"

\* Lines 235-239 and 253-256: the loop test of run_schedulers.  With a
\* duration the loop also ends when the time is up, and stop_schedulers
\* follows it; a tick starts with now = datetime.now() (line 281).
SchedTest ==
    /\ k_pc = "test"
    /\ \E time_up \in BOOLEAN :
          /\ time_up => duration > 0
          /\ IF ~time_up /\ AnyRunning(schedulers)
             THEN /\ k_pc' = "tick"
                  /\ \E t \in 1..MaxTime : t >= now /\ now' = t
                  /\ tick_block' = 1
                  /\ executed' = <<>>
                  /\ UNCHANGED <<schedulers, stopped, sched_out>>
             ELSE /\ SchedReturn(schedulers, duration > 0, "True")
                  /\ UNCHANGED <<now, tick_block, executed>>
    /\ UNCHANGED duration
    /\ SchedFrame

\* Lines 283-331, one check of a tick: a due scheduler executes its extraction
\* and, if that reported success, run_X_analysis (which catches every
\* exception).  _execute_extraction moves next_run on; if it raises, lines
\* 272-275 stop the schedulers and return False.
TickBlock ==
    /\ k_pc = "tick"
    /\ tick_block \in 1..Len(SchedulerNames)
    /\ LET n == SchedulerNames[tick_block] IN
       IF Due(schedulers[n], now)
       THEN LET after == [schedulers EXCEPT ![n] = Rescheduled(@, now)]
              IN \/ \E ok \in BOOLEAN :
                      /\ executed' = executed \o <<Extraction(n, ok)>>
                                        \o (IF ok THEN <<Analysis(n)>> ELSE <<>>)
                      /\ schedulers' = after
                      /\ tick_block' = tick_block + 1
                      /\ UNCHANGED <<k_pc, stopped, sched_out>>
                 \/ /\ executed' = Append(executed, Extraction(n, FALSE))
                    /\ SchedReturn(after, TRUE, "False")
                    /\ UNCHANGED tick_block
       ELSE /\ tick_block' = tick_block + 1
            /\ UNCHANGED <<schedulers, k_pc, executed, stopped, sched_out>>
    /\ UNCHANGED <<duration, now>>
    /\ SchedFrame

\* Lines 333-339 and 243-247: the status log and the sleep that end a tick.
TickEnd ==
    /\ k_pc = "tick"
    /\ tick_block = Len(SchedulerNames) + 1
    /\ k_pc' = "test"
    /\ UNCHANGED <<schedulers, duration, now, tick_block, executed, stopped,
                   sched_out>>
    /\ SchedFrame

\* Lines 267-271: KeyboardInterrupt anywhere in the loop; stop_schedulers and
\* return True.
Interrupt ==
    /\ k_pc \in {"test", "tick"}
    /\ SchedReturn(schedulers, TRUE, "True")
    /\ UNCHANGED <<duration, now, tick_block, executed>>
    /\ SchedFrame

\* main.py lines 177-179 and 184-186: in schedule mode main() returns what
\* run_schedulers returned, and the process exits with 0 if it is true.
SchedExit ==
    /\ k_pc = "returned" /\ ended = "no"
    /\ exit_status' = ExitStatus(sched_out = "True")
    /\ ended' = "returned"
    /\ UNCHANGED <<process, block, main_success, invoked, outcome, schedVars,
                   selectVars, serverVars, validVars, extractVars, prepVars,
                   runVars, paramVars, mainVars, taskVars, agents>>

TaskStep(b) ==
    \/ TaskStart(b) \/ ThreadsCreate(b) \/ MessagesCreate(b) \/ ListAgents(b)
    \/ CreateAgent(b) \/ RunsCreate(b) \/ RunsGet(b) \/ PollSleep(b)
    \/ PollErrorSleep(b) \/ MessagesList(b) \/ PollReturned(b)
    \/ BackoffSleep(b) \/ TaskFinish(b)

Next ==
    \/ StartBatches \/ Gather \/ AnalyzeDeviations \/ RunFinish
    \/ \E b \in Tasks : TaskStep(b)

(***************************************************************************)
(* Initial states.                                                         *)
(***************************************************************************)
TasksIdle ==
    /\ batches = <<>> /\ batch_results = <<>> /\ all_results = <<>>
    /\ finished = <<>>
    /\ pc = [b \in Tasks |-> "unused"]
    /\ retry_count = [b \in Tasks |-> 0]
    /\ poll_count = [b \in Tasks |-> 0]
    /\ agent_id = [b \in Tasks |-> 0]
    /\ result = [b \in Tasks |-> EmptyList]
    /\ run_status = [b \in Tasks |-> "none"]
    /\ never_final = [b \in Tasks |-> FALSE]
    /\ call_out = [b \in Tasks |-> Returned(EmptyList)]
    /\ task_out = [b \in Tasks |-> Returned(EmptyList)]
    /\ attempts = [b \in Tasks |-> 0]
    /\ threads_created = [b \in Tasks |-> 0]
    /\ polls_issued = [b \in Tasks |-> 0]
    /\ thread_id = [b \in Tasks |-> NoId]
    /\ run_id = [b \in Tasks |-> NoId]
    /\ thread_args = [b \in Tasks |-> {}]
    /\ run_args = [b \in Tasks |-> {}]
    /\ run_target = [b \in Tasks |-> NoTarget]


\* The analyzer, main(), the poll and the schedulers are left alone.
ServerFrame ==
    UNCHANGED <<cliVars, selectVars, schedVars, validVars, extractVars, prepVars,
                runVars, paramVars, mainVars, taskVars, agents>>
\* Lines 48-66: run() has called step k, which returned ok.
Stepped(k, ok) ==
    /\ steps' = Append(steps, Step(k, ok))
    /\ d_pc' = NextStep(k, ok)
    /\ d_out' = IF NextStep(k, ok) # "done" THEN d_out
                ELSE IF ok /\ k = Len(RunSteps) THEN "True" ELSE "False"

\* Lines 49-51 and 73-105: _load_data.
DLoad ==
    /\ d_pc = "load"
    /\ extraction_params' = IF files.state \in {"ok", "half"} THEN files.params
                            ELSE extraction_params
    /\ server_data' = IF files.state = "ok" THEN files.servers ELSE server_data
    /\ Stepped(1, load_data(files))
    /\ UNCHANGED <<files, filtered_server_data, system_names_list, client_name,
                   output_file>>
    /\ ServerFrame

\* Lines 53-55 and 107-139: _validate_data.
DValidate ==
    /\ d_pc = "validate"
    /\ Stepped(2, validate_data(extraction_params, server_data))
    /\ UNCHANGED <<files, extraction_params, server_data, filtered_server_data,
                   system_names_list, client_name, output_file>>
    /\ ServerFrame

\* Lines 57-58 and 141-150: _extract_client_name.
DClientName ==
    /\ d_pc = "client"
    /\ client_name' = extract_client_name(extraction_params, client_name)
    /\ Stepped(3, TRUE)
    /\ UNCHANGED <<files, extraction_params, server_data, filtered_server_data,
                   system_names_list, output_file>>
    /\ ServerFrame

\* Lines 60-62 and 152-178: _filter_server_data; an exception it raises is
\* caught at line 69 and run() returns False.
DFilter ==
    /\ d_pc = "filter"
    /\ LET st == filter_rows(extraction_params.rows, server_data.rows,
                             [filtered |-> filtered_server_data,
                              names |-> system_names_list, raised |-> FALSE])
       IN /\ filtered_server_data' = st.filtered
          /\ system_names_list' = st.names
          /\ IF st.raised
             THEN /\ steps' = Append(steps, Step(4, FALSE))
                  /\ d_pc' = "done" /\ d_out' = "False"
             ELSE Stepped(4, filter_returns(st.filtered))
    /\ UNCHANGED <<files, extraction_params, server_data, client_name, output_file>>
    /\ ServerFrame

\* Lines 64-67 and 180-184: _prepare_output_path, and run() returns True.
DOutputPath ==
    /\ d_pc = "path"
    /\ output_file' = OutputFor(client_name)
    /\ Stepped(5, TRUE)
    /\ UNCHANGED <<files, extraction_params, server_data, filtered_server_data,
                   system_names_list, client_name>>
    /\ ServerFrame

\* Lines 44-71 of utils/validation.py: validate_data_content; line 66 binds
\* its local name env_data to the frame dropna returns.
ValidateContent ==
    /\ v_pc = "called"
    /\ \E params_ok \in BOOLEAN :
          /\ v_out' = validate_data_content(params_ok, env_data)
          /\ v_local' = IF params_ok /\ env_data.has_columns /\ any_null(env_data.rows)
                        THEN [env_data EXCEPT !.rows = dropna(@)]
                        ELSE env_data
    /\ v_pc' = "returned"
    /\ UNCHANGED <<env_data, cliVars, selectVars, schedVars, serverVars, extractVars,
                   prepVars, runVars, paramVars, mainVars, taskVars, agents>>

\* run_schedulers is not running.
SchedOff ==
    /\ schedulers = [n \in SchedulerSet |-> NoScheduler]
    /\ k_pc = "off" /\ duration = 0 /\ now = NoTime /\ tick_block = 0
    /\ executed = <<>> /\ stopped = {} /\ sched_out = "none"
\* No ServerDataExtractor was constructed.
ServerOff ==
    /\ files = NoFiles /\ d_pc = "off"
    /\ extraction_params = NoTable /\ server_data = NoTable
    /\ filtered_server_data = NoFrame /\ system_names_list = <<>>
    /\ client_name = DefaultClient /\ output_file = NoOutput
    /\ steps = <<>> /\ d_out = "none"
\* validate_data_content is not called.
ValidOff ==
    /\ env_data = NoEnvData /\ v_local = NoEnvData /\ v_pc = "off"
    /\ v_out = NoVerdict
ToolsOff == SchedOff /\ ServerOff /\ ValidOff
\* main() is not running, and no poll is at its message listing.
MainOff ==
    /\ process = "all" /\ block = 0 /\ main_success = TRUE /\ invoked = <<>>
    /\ outcome = [w \in Processes \ {"all"} |-> NotRun]
    /\ exit_status = NoExit /\ ended = "no"
SelectOff ==
    messages = <<>> /\ s_pc = "off" /\ passed = NoMessage /\ poll_out = <<0>>
ExtractorOff == text = <<>> /\ x_pc = "off" /\ x_out = Return(EmptyList)
PrepOff == cloud_data = <<>> /\ p_pc = "off" /\ data_for_analysis = <<>>
\* Lines 44 and 764-774: no analysis result yet, run() has not returned.
RunIdle ==
    /\ analysis_results = NoFrame
    /\ success = FALSE /\ saved = FALSE /\ run_out = FALSE
    /\ workbook = NoWorkbook
\* run() has not been called.
RunNotStarted == stages = <<>> /\ loaded = FALSE
\* run() has loaded the input and called analyze_cloud_deviations.
RunAnalyzing == stages = SubSeq(RunStages, 1, 2) /\ loaded = TRUE

\* An analyzer about to call _process_batches_with_ai on n summaries, n in Ns,
\* with the retry bound in Rs and the poll bound in Ps; the remote service
\* holds no agent yet, or one.
InitProtocol(Ns, Rs, Ps) ==
    /\ ExtractorOff
    /\ p_pc = "off"
    /\ \E n \in Ns : cloud_data = OneRecordEach(n)
    /\ data_for_analysis = prepare_data_for_analysis(cloud_data)
    /\ data = SummaryNames(data_for_analysis)
    /\ RunIdle
    /\ RunAnalyzing
    /\ MainOff /\ SelectOff /\ ToolsOff
    /\ max_retries \in Rs
    /\ poll_max \in Ps
    /\ m_pc = "start"
    /\ TasksIdle
    /\ agents \in {<<>>, <<1>>}

\* The batch scheduler with max_retries = 1 and the poll bound = 1: up to
\* 2 * batch_size summaries (one or two concurrent batch tasks), and MaxSystems
\* summaries (MaxTasks concurrent batch tasks) with the agent already
\* registered; and one or two concurrent batch tasks with a retry bound or a
\* poll bound of 2.
Init ==
    /\ ClientReady
    /\ \/ InitProtocol(1..(2 * batch_size), {1}, {1})
       \/ InitProtocol({MaxSystems}, {1}, {1}) /\ agents = <<1>>
       \/ InitProtocol({1, batch_size + 1}, {1, 2}, {1})
       \/ InitProtocol({1, batch_size + 1}, {1}, {2})
Spec == Init /\ [][Next]_vars

\* Two concurrent batch tasks (batch_size + 1 summaries) with a retry bound or
\* a poll bound of 2.
PairInit ==
    /\ ClientReady
    /\ \/ InitProtocol({batch_size + 1}, {1, 2}, {1})
       \/ InitProtocol({batch_size + 1}, {1}, {2})
PairSpec == PairInit /\ [][Next]_vars

\* One call of _call_ai_with_thread_and_run (a single batch of one or two
\* summaries) for every retry bound up to MaxRetries and poll bound up to MaxPolls.
CallInit == ClientReady /\ InitProtocol({1, 2}, 1..MaxRetries, 1..MaxPolls)
CallSpec == CallInit /\ [][Next]_vars
\* Every remote call returns or raises and every sleep ends: a task that can
\* take a step eventually takes one.
FairCallSpec == CallInit /\ [][Next]_vars /\ WF_vars(Next)

\* run() from its first statement (self.cloud_data is None, line 43), with retry
\* and poll bounds of 1 and 2.
RunInit ==
    /\ ExtractorOff /\ PrepOff /\ RunIdle /\ RunNotStarted /\ ClientReady
    /\ MainOff /\ SelectOff /\ ToolsOff
    /\ data = <<>>
    /\ max_retries \in {1, 2}
    /\ poll_max \in {1, 2}
    /\ m_pc = "run"
    /\ TasksIdle
    /\ agents \in {<<>>, <<1>>}
\* The analyzer from its construction: every outcome of __init__, and for an
\* analyzer that was returned, a batch of one or two summaries with retry and
\* poll bounds of 1 and 2.  When __init__ raised there is no analyzer.
ConstructInit ==
    \E env_missing, client_init_raises \in BOOLEAN :
        LET made == Construct(env_missing, client_init_raises)
        IN /\ client = made.client
           /\ IF made.raised
              THEN /\ ExtractorOff /\ PrepOff /\ RunIdle /\ RunNotStarted
                   /\ TasksIdle /\ agents = <<>> /\ MainOff /\ SelectOff /\ ToolsOff
                   /\ data = <<>> /\ max_retries = 1 /\ poll_max = 1
                   /\ m_pc = "off"
              ELSE InitProtocol({1, 2}, {1, 2}, {1, 2})
ConstructSpec == ConstructInit /\ [][Next]_vars

\* The analyzer and its parts are idle.
AnalyzerOff ==
    /\ ExtractorOff /\ PrepOff
    /\ data = <<>> /\ max_retries = 1 /\ poll_max = 1 /\ m_pc = "off"
    /\ TasksIdle /\ agents = <<>> /\ RunIdle /\ RunNotStarted /\ ClientReady

\* The largest number of result records in the model of the metadata.
MaxResults == 3
\* Values of the Cloud_Config column of a result record: the two verdicts the
\* prompt asks for, and others the service may answer with.
Verdicts == {"OK", "Deviation", "Unknown", "ok"}
\* run() after analyze_cloud_deviations returned True (line 774), for every
\* result set of 1..MaxResults records.
MetaInit ==
    /\ ExtractorOff /\ MainOff /\ SelectOff /\ ToolsOff
    /\ p_pc = "off" /\ cloud_data = OneRecordEach(2)
    /\ data_for_analysis = prepare_data_for_analysis(cloud_data)
    /\ data = SummaryNames(data_for_analysis)
    /\ max_retries = 1 /\ poll_max = 1
    /\ TasksIdle /\ agents = <<>> /\ ClientReady
    /\ m_pc = "analyzed"
    /\ \E n \in 1..MaxResults :
          \E rows \in [1..n -> {Record(name, v) : name \in {1, 2}, v \in Verdicts}] :
              analysis_results = DataFrame(rows)
    /\ success = TRUE /\ saved = FALSE /\ run_out = FALSE
    /\ workbook = NoWorkbook
    /\ RunAnalyzing
MetaNext == RunFinish
MetaSpec == MetaInit /\ [][MetaNext]_vars

\* run_schedulers at its first statement: no scheduler, one or all five were
\* set up (main.py lines 139-167) and started or not; duration is 0 or 1.
SchedInit ==
    /\ AnalyzerOff /\ MainOff /\ SelectOff /\ ServerOff /\ ValidOff
    /\ \E reg \in {{}, SchedulerSet} \cup {{n} : n \in SchedulerSet} :
          schedulers \in
              [SchedulerSet -> [registered : BOOLEAN, running : BOOLEAN,
                                next_run : {NoTime, 1}]]
          /\ \A n \in SchedulerSet :
                IF n \in reg THEN schedulers[n].registered
                ELSE schedulers[n] = NoScheduler
    /\ k_pc = "test"
    /\ duration \in {0, 1}
    /\ now = NoTime /\ tick_block = 0 /\ executed = <<>> /\ stopped = {}
    /\ sched_out = "none"
SchedNext == SchedTest \/ TickBlock \/ TickEnd \/ Interrupt \/ SchedExit
SchedSpec == SchedInit /\ [][SchedNext]_vars

\* The parameter texts, cells and sheets, and the server sheets, of a run.
ParamTexts == UNION {[1..n -> Chars] : n \in 0..MaxParamLen}
FirstCells == {NaN, Number} \cup {Str(t) : t \in ParamTexts}
LaterCells == {NaN, Str(AllText), Str(<<"L">>)}
ParamRows == {<<c>> : c \in FirstCells}
                 \cup {<<c, d>> : c \in FirstCells, d \in LaterCells}
ParamTables ==
    {ParamTable(TRUE, hc, r) : hc \in BOOLEAN, r \in ParamRows}
        \cup {ParamTable(FALSE, TRUE, <<NaN>>), ParamTable(TRUE, TRUE, <<>>)}
ServerNames == {<<"a">>, <<"L">>}
ServerRows ==
    {[i \in 1..Len(f) |-> [id |-> i, name |-> f[i]]] :
        f \in UNION {[1..n -> ServerNames] : n \in 0..MaxRows}}
ServerTables ==
    {ServerTable(TRUE, r) : r \in ServerRows}
        \cup {ServerTable(FALSE, <<[id |-> 1, name |-> <<"a">>]>>)}
\* A fresh ServerDataExtractor (lines 17-36) about to run(): a file is missing,
\* the parameter sheet cannot be read, only the server sheet cannot be read,
\* or both sheets are read.
ServerInit ==
    /\ AnalyzerOff /\ MainOff /\ SelectOff /\ SchedOff /\ ValidOff
    /\ \/ files \in [state : {"missing", "unreadable"}, params : {NoTable},
                     servers : {NoTable}]
       \/ files \in [state : {"half"}, params : ParamTables, servers : {NoTable}]
       \/ files \in [state : {"ok"}, params : ParamTables, servers : ServerTables]
    /\ d_pc = "load"
    /\ extraction_params = NoTable /\ server_data = NoTable
    /\ filtered_server_data = NoFrame /\ system_names_list = <<>>
    /\ client_name = DefaultClient /\ output_file = NoOutput
    /\ steps = <<>> /\ d_out = "none"
ServerNext == DLoad \/ DValidate \/ DClientName \/ DFilter \/ DOutputPath
ServerSpec == ServerInit /\ [][ServerNext]_vars

\* validate_data_content called on a register of up to MaxRows + 1 records.
EnvRows ==
    UNION {[1..n -> [env_id : BOOLEAN, system_name : BOOLEAN]] :
              n \in 0..(MaxRows + 1)}
ValidInit ==
    /\ AnalyzerOff /\ MainOff /\ SelectOff /\ SchedOff /\ ServerOff
    /\ env_data \in [has_columns : BOOLEAN, rows : EnvRows]
    /\ v_local = env_data
    /\ v_pc = "called"
    /\ v_out = NoVerdict
ValidNext == ValidateContent
ValidSpec == ValidInit /\ [][ValidNext]_vars

\* main.py in run mode, at line 61, for every choice of --process.
MainInit ==
    /\ AnalyzerOff /\ SelectOff /\ ToolsOff
    /\ process \in Processes
    /\ block = 0
    /\ main_success = TRUE
    /\ invoked = <<>>
    /\ outcome = [w \in Processes \ {"all"} |-> NotRun]
    /\ exit_status = NoExit /\ ended = "no"
MainNext == MainStart \/ MainBlock \/ MainExit
MainSpec == MainInit /\ [][MainNext]_vars

\* A poll that saw status "completed" and listed the thread's messages.
SelectInit ==
    /\ AnalyzerOff /\ MainOff /\ ToolsOff
    /\ messages \in Listings
    /\ s_pc = "listed"
    /\ passed = NoMessage
    /\ poll_out = <<0>>
SelectNext == SelectAssistant
SelectSpec == SelectInit /\ [][SelectNext]_vars

RunNext == RunLoad \/ AnalyzeBegin \/ Next
RunSpec == RunInit /\ [][RunNext]_vars

(***************************************************************************)
(* The extractor on its own: every token sequence of up to MaxTextLen      *)
(* tokens, and JSON documents nested up to MaxDepth, bare or fenced, with  *)
(* prose around them.                                                      *)
(***************************************************************************)
ArbitraryTexts == UNION {[1..n -> Alphabet] : n \in 0..MaxTextLen}

RECURSIVE JsonDocs(_)
JsonDocs(d) ==
    IF d = 0 THEN {<<ZERO>>, <<LBRACK, RBRACK>>, <<LBRACE, RBRACE>>}
    ELSE LET S == JsonDocs(d - 1) IN
         S \cup {<<LBRACK>> \o v \o <<RBRACK>> : v \in S}
           \cup {<<LBRACK>> \o v[1] \o <<COMMA>> \o v[2] \o <<RBRACK>> : v \in S \X S}
           \cup {<<LBRACE, k>> \o v \o <<RBRACE>> : k \in Keys, v \in S}
           \cup {<<LBRACE, KEY_A>> \o v[1] \o <<COMMA, KEY_RESULTS>> \o v[2]
                    \o <<RBRACE>> : v \in S \X S}

ProseBefore == {<<>>, <<PROSE>>, <<PROSE, WS>>, <<LBRACK, PROSE, RBRACK>>,
                <<LBRACE, PROSE, RBRACE>>}
ProseAfter == {<<>>, <<PROSE>>, <<LBRACK, PROSE, RBRACK>>, <<LBRACE, PROSE, RBRACE>>}
FencedJson(doc) == <<FENCE, JSONTAG, WS>> \o doc \o <<WS, FENCE>>
FencedPlain(doc) == <<FENCE, WS>> \o doc \o <<WS, FENCE>>
StructuredTexts ==
    {pre \o body \o post :
        pre \in ProseBefore, post \in ProseAfter,
        body \in UNION {{doc, FencedJson(doc), FencedPlain(doc)} :
                            doc \in JsonDocs(MaxDepth)}}

ProtocolOff ==
    /\ data = <<>> /\ max_retries = 1 /\ poll_max = 1 /\ m_pc = "off"
    /\ TasksIdle /\ agents = <<>> /\ RunIdle /\ RunNotStarted /\ ClientReady
    /\ MainOff /\ SelectOff /\ ToolsOff

ExtractInit ==
    /\ text \in ArbitraryTexts \cup StructuredTexts
    /\ x_pc = "ready"
    /\ x_out = Return(EmptyList)
    /\ ProtocolOff
    /\ PrepOff
ExtractNext == ExtractJson
ExtractSpec == ExtractInit /\ [][ExtractNext]_vars

(***************************************************************************)
(* _prepare_data_for_analysis on its own: every inventory of up to         *)
(* MaxRecords records.                                                     *)
(***************************************************************************)
PrepInit ==
    /\ cloud_data \in UNION {[1..n -> InventoryRows] : n \in 0..MaxRecords}
    /\ p_pc = "ready"
    /\ data_for_analysis = <<>>
    /\ ExtractorOff
    /\ ProtocolOff
PrepNext == PrepareData
PrepSpec == PrepInit /\ [][PrepNext]_vars

(***************************************************************************)
(* Claims about the run client, checked under CallSpec and FairCallSpec.   *)
(***************************************************************************)
Called(b) == pc[b] \in {"returned", "done"}

\* C1: for every retry bound R and every sequence of remote outcomes, the call
\* enters at most R attempts, never lets an exception escape, and returns the
\* empty list once all R attempts have failed.
C1_BoundedRetriesNoRaise ==
    \A b \in Tasks :
        /\ attempts[b] <= max_retries
        /\ Called(b) => ~call_out[b].raised
        /\ (Called(b) /\ retry_count[b] = max_retries) => call_out[b].val = EmptyList

\* C1 witness: a call that returned [] after three failed attempts, one of which
\* raised before its thread existed and one of which got as far as polling.
C1_Witness ==
    \E b \in Tasks :
        /\ pc[b] = "returned" /\ max_retries = 3 /\ attempts[b] = 3
        /\ retry_count[b] = 3 /\ call_out[b] = Returned(EmptyList)
        /\ threads_created[b] < attempts[b] /\ polls_issued[b] > 0

\* C2: a poll call in which no poll saw completed, failed, cancelled or expired
\* is left only by its return statement (it does not raise), with the empty
\* list, and only once the poll counter has reached the poll bound.
C2_PendingRunTimesOut ==
    \A b \in Tasks :
        never_final[b] =>
            /\ pc[b] \in PollPcs \cup {"poll_returned"}
            /\ pc[b] = "poll_returned" =>
                   (result[b] = EmptyList /\ poll_count[b] = poll_max)

\* C2 witness: a poll call returned after three polls that all saw the run
\* queued or in progress.
C2_Witness ==
    \E b \in Tasks :
        /\ pc[b] = "poll_returned" /\ never_final[b] /\ poll_max = 3
        /\ polls_issued[b] = 3 /\ attempts[b] = 1
        /\ run_status[b] \in {"queued", "in_progress"} /\ result[b] = EmptyList

\* C3: a poll that observes failed, cancelled or expired returns the empty list
\* in that same step, without a sleep; the run is never polled again; and the
\* retry loop then enters a fresh attempt if one remains, else returns.
C3_TerminalStatusEndsAttempt ==
    [][\A b \in Tasks :
        /\ (pc[b] = "runs_get" /\ run_status'[b] \in TerminalStatuses)
              => (pc'[b] = "poll_returned" /\ result'[b] = EmptyList)
        /\ pc'[b] \in PollPcs => run_status'[b] \notin TerminalStatuses
        /\ (pc[b] = "poll_returned" /\ run_status[b] \in TerminalStatuses
              /\ pc'[b] # pc[b])
              => /\ polls_issued'[b] = polls_issued[b]
                 /\ pc'[b] = IF retry_count[b] + 1 < max_retries
                             THEN "threads_create" ELSE "returned"
                 /\ retry_count'[b] = retry_count[b] + 1
    ]_vars

\* C3 witness: the poll call returned on a cancelled run after one poll, and a
\* retry remains.
C3_Witness ==
    \E b \in Tasks :
        /\ pc[b] = "poll_returned" /\ run_status[b] = "cancelled"
        /\ poll_count[b] = 0 /\ polls_issued[b] = 1 /\ poll_max > 1
        /\ retry_count[b] + 1 < max_retries

\* C4: with retry bound R and poll bound P a call creates at most R remote
\* threads and issues at most R*P status polls, and, every remote call
\* returning or raising, the call returns.
C4_TerminatesWithinBounds ==
    /\ [](\A b \in Tasks : /\ threads_created[b] <= max_retries
                          /\ polls_issued[b] <= max_retries * poll_max)
    /\ \A b \in Tasks : (pc[b] = "threads_create") ~> Called(b)

\* C4 witness: a call that returned after creating R = 3 threads and issuing
\* R*P = 9 status polls.
C4_Witness ==
    \E b \in Tasks :
        /\ pc[b] = "returned" /\ max_retries = 3 /\ poll_max = 3
        /\ threads_created[b] = 3 /\ polls_issued[b] = 9

(***************************************************************************)
(* Claims about the batch scheduler, checked under Spec.                   *)
(***************************************************************************)
NumBatches == Len(batches)
BatchFailed(b) == call_out[b].raised \/ call_out[b].val = EmptyList
FailedBatches == {b \in 1..NumBatches : BatchFailed(b)}
RECURSIVE SumLen(_, _)
SumLen(f, S) ==
    IF S = {} THEN 0
    ELSE LET b == CHOOSE x \in S : TRUE IN Len(f[b].val.v) + SumLen(f, S \ {b})
PositionsOf(rec) == {p \in 1..Len(all_results) : all_results[p] = rec}

\* What C5 promises of a finished _process_batches_with_ai: it returned, its
\* list holds every record of every batch that did not fail and nothing of the
\* failed one, and every task ran to its end.
FailureIsolated ==
    /\ m_pc = "done"
    /\ \A c \in (1..NumBatches) \ FailedBatches :
          \A k \in 1..Len(call_out[c].val.v) :
              PositionsOf(call_out[c].val.v[k]) # {}
    /\ Len(all_results) = SumLen(call_out, (1..NumBatches) \ FailedBatches)
    /\ \A c \in 1..NumBatches : pc[c] = "done"
    /\ Len(batch_results) = NumBatches
    /\ \A f \in FailedBatches : batch_results[f] = EmptyList
\* The call of batch c returned a list whose first item is a record.
ReturnedRecords(c) == ~call_out[c].raised /\ ~LogRaises(call_out[c].val)

\* C5: when exactly one of several batch calls fails (raises or exhausts its
\* retries) and the others succeed, _process_batches_with_ai returns a list
\* that holds every record of every other batch and nothing of the failed one,
\* and every task ran to its end.
C5_FailureIsolatedPerBatch ==
    (/\ m_pc \in {"done", "raised"}
     /\ NumBatches >= 2 /\ Cardinality(FailedBatches) = 1) => FailureIsolated

\* The same with every other call returning a list of records: the failure of
\* the one batch costs no record of the others.
FailureIsolatedAmongRecordLists ==
    (/\ m_pc \in {"done", "raised"}
     /\ NumBatches >= 2 /\ Cardinality(FailedBatches) = 1
     /\ \A c \in (1..NumBatches) \ FailedBatches : ReturnedRecords(c)) =>
        FailureIsolated

\* C6: N summaries give ceil(N/B) batches, consecutive order-preserving slices
\* of B rows (the last possibly shorter) that cover all N; and when every batch
\* returns one record per summary in request order the result has the N
\* entities in their original order.
C6_BatchesPartitionInput ==
    LET N == Len(data)
        B == batch_size
    IN m_pc \in {"gather", "done"} =>
        /\ NumBatches * B >= N /\ (NumBatches - 1) * B < N
        /\ \A k \in 1..NumBatches :
              /\ Len(batches[k].rows) = IF k < NumBatches THEN B ELSE N - (k - 1) * B
              /\ \A j \in 1..Len(batches[k].rows) :
                    batches[k].rows[j] = data[(k - 1) * B + j]
        /\ (/\ m_pc = "done"
            /\ \A k \in 1..NumBatches :
                  /\ Len(call_out[k].val.v) = Len(batches[k].rows)
                  /\ \A j \in 1..Len(batches[k].rows) :
                        /\ IsDictItem(call_out[k].val.v[j])
                        /\ call_out[k].val.v[j].System_Name = batches[k].rows[j])
           => /\ Len(all_results) = N
              /\ \A p \in 1..N : all_results[p].System_Name = data[p]

\* C6 witness: MaxSystems summaries went out as three batches, each answered
\* in full, and as many records came back in order.
C6_Witness ==
    /\ m_pc = "done" /\ Len(data) = MaxSystems /\ NumBatches = 3
    /\ \A k \in 1..3 : call_out[k].val = Node("list", Echo(batches[k].rows))
    /\ Len(all_results) = MaxSystems

\* C7: whatever the order in which the batch tasks complete, and whichever
\* batches fail, every record of batch i stands before every record of batch j
\* in the returned list when i < j: the list is the records of batch 1, then
\* those of batch 2, and so on, each batch's in the order it returned them.
C7_BatchOrderPreserved ==
    m_pc = "done" =>
        /\ Len(all_results) = SumLen(task_out, 1..NumBatches)
        /\ \A i \in 1..NumBatches :
              \A k \in 1..Len(task_out[i].val.v) :
                  all_results[SumLen(task_out, 1..(i - 1)) + k] = task_out[i].val.v[k]

\* C7 witness: three batches, the third completed first and the first last;
\* the first came back one record short, the second failed and the third came
\* back with a record more than was asked for, and the records of the first
\* and the third were returned.
C7_Witness ==
    /\ m_pc = "done" /\ NumBatches = 3 /\ finished = <<3, 2, 1>>
    /\ Len(task_out[1].val.v) = batch_size - 1
    /\ task_out[2].val = EmptyList
    /\ task_out[3].val = Node("list", Append(Echo(batches[3].rows),
                                             Unasked(batches[3].rows)))
    /\ Len(all_results) = batch_size - 1 + Len(batches[3].rows) + 1

\* C8: agent resolution is not synchronized between batch tasks: a task that
\* found the agent list empty creates an agent whatever the list holds by then,
\* so two tasks that both saw it empty both create one.
C8_AgentCreationUnsynchronized ==
    [][\A b \in Tasks :
        (pc[b] = "create_agent" /\ agent_id'[b] # 0)
            => /\ Len(agents') = Len(agents) + 1
               /\ agent_id'[b] = agents'[Len(agents')]
               /\ \A k \in 1..Len(agents) : agents[k] # agent_id'[b]
    ]_vars

\* C8 witness: two tasks of one run each created an agent of their own.
C8_Witness ==
    \E b \in Tasks : \E c \in Tasks :
        /\ b # c /\ Len(agents) >= 2
        /\ agent_id[b] # 0 /\ agent_id[c] # 0 /\ agent_id[b] # agent_id[c]

(***************************************************************************)
(* Claims about the extractor, checked under ExtractSpec.                  *)
(***************************************************************************)
Candidate == FindCandidate(StripFences(text))

\* C9: _extract_json_from_text never raises, and returns the empty list when no
\* JSON candidate is found, when the candidate does not parse, and when the
\* parsed value is neither a list nor a mapping.
C9_ExtractorNeverRaises ==
    x_pc = "done" =>
        /\ ~x_out.raised
        /\ ~Candidate.found => x_out.val = EmptyList
        /\ (Candidate.found /\ ~json_loads(Candidate.content).ok)
              => x_out.val = EmptyList
        /\ (/\ Candidate.found /\ json_loads(Candidate.content).ok
            /\ ~IsList(json_loads(Candidate.content).val)
            /\ ~IsDict(json_loads(Candidate.content).val))
              => x_out.val = EmptyList

\* C9 witness: a text whose candidate (a brace pair around prose) does not parse
\* was answered with the empty list.
C9_Witness ==
    /\ x_pc = "done" /\ Candidate.found /\ ~json_loads(Candidate.content).ok
    /\ x_out = Return(EmptyList)

\* The fenced blocks of a text whose interior is a valid JSON array: <<i, j>> with
\* the opening fence and its json tag at i, i+1 and the closing fence at j.
FencedArrayBlocks(t) ==
    {blk \in (1..Len(t)) \X (1..Len(t)) :
        /\ blk[1] + 1 < blk[2]
        /\ t[blk[1]] = FENCE /\ t[blk[1] + 1] = JSONTAG /\ t[blk[2]] = FENCE
        /\ \A k \in (blk[1] + 1)..(blk[2] - 1) : t[k] # FENCE
        /\ json_loads(SubSeq(t, blk[1] + 2, blk[2] - 1)).ok
        /\ IsList(json_loads(SubSeq(t, blk[1] + 2, blk[2] - 1)).val)}

\* C10: for a text that holds a json-tagged fenced block whose interior is a valid
\* JSON array, the extractor returns exactly that array, whatever surrounds it.
C10_FencedArrayReturned ==
    x_pc = "done" =>
        \A blk \in FencedArrayBlocks(text) :
            x_out = Return(json_loads(SubSeq(text, blk[1] + 2, blk[2] - 1)).val)

\* The text as a whole is a JSON document (json.loads accepts it) and holds no
\* fence marker.
Unfenced(t) == \A k \in 1..Len(t) : t[k] # FENCE
WholeDoc == json_loads(text)

\* C11: for a text that is exactly a valid JSON array, with no fencing, the
\* extractor returns that same array, whatever its elements are.
C11_BareArrayReturned ==
    (x_pc = "done" /\ Unfenced(text) /\ WholeDoc.ok /\ IsList(WholeDoc.val))
        => x_out = Return(WholeDoc.val)

\* C12: for a text that is a JSON mapping with a "results" key, the extractor
\* returns the value of that key.
C12_ResultsValueReturned ==
    (/\ x_pc = "done" /\ Unfenced(text) /\ WholeDoc.ok /\ IsDict(WholeDoc.val)
     /\ HasKey(WholeDoc.val, KEY_RESULTS))
        => x_out = Return(GetKey(WholeDoc.val, KEY_RESULTS))

\* C13: for a text that is a JSON mapping without a "results" key, the extractor
\* returns the one-element list that holds the whole mapping.
C13_MappingWrapped ==
    (/\ x_pc = "done" /\ Unfenced(text) /\ WholeDoc.ok /\ IsDict(WholeDoc.val)
     /\ ~HasKey(WholeDoc.val, KEY_RESULTS))
        => x_out = Return(Node("list", <<WholeDoc.val>>))

\* C14: for every text the value the extractor returns is a list.
C14_AlwaysReturnsList ==
    x_pc = "done" => (~x_out.raised /\ IsList(x_out.val))

(***************************************************************************)
(* Further claims about the run client.                                    *)
(***************************************************************************)
\* C15: every attempt after the first is entered from the backoff sleep of line
\* 455, whether the attempt before it raised or its polling returned empty.
C15_BackoffBetweenAttempts ==
    [][\A b \in Tasks :
        (pc'[b] = "threads_create" /\ pc[b] # "threads_create"
            /\ retry_count'[b] > 0)
          => pc[b] = "backoff_sleep"
    ]_vars

\* The thread ids the service has issued so far, to any task.
IssuedThreads == {id \in Tasks \X (1..MaxRetries) : id[2] <= threads_created[id[1]]}

\* C16: every attempt starts by creating a new remote thread; the message post,
\* the run creation and the polls of the attempt are given that thread id and
\* the id of the run created on it, and nothing else; and the thread id of an
\* attempt was never issued before, to an earlier attempt or to another batch.
C16_FreshThreadPerAttempt ==
    /\ [](\A b \in Tasks :
            /\ pc[b] = "threads_create" => (thread_id[b] = NoId /\ thread_args[b] = {})
            /\ pc[b] \in AttemptPcs \ {"threads_create", "backoff_sleep"}
                  => thread_id[b] \in IssuedThreads
            /\ thread_args[b] \subseteq {thread_id[b]}
            /\ run_args[b] \subseteq {run_id[b]} \ {NoId}
            /\ run_id[b] # NoId => run_id[b] = IssueRunId(thread_id[b])
            /\ \A c \in Tasks \ {b} :
                  thread_id[b] # NoId =>
                      /\ thread_id[b] # thread_id[c]
                      /\ thread_id[b] \notin thread_args[c]
                      /\ IssueRunId(thread_id[b]) \notin run_args[c])
    /\ [][\A b \in Tasks :
            /\ (pc'[b] = "messages_create" /\ pc[b] # "messages_create")
                  => /\ pc[b] = "threads_create"
                     /\ thread_id'[b] \notin IssuedThreads
                     /\ thread_id'[b] \in IssuedThreads'
            /\ (thread_id'[b] # thread_id[b] /\ thread_id'[b] # NoId)
                  => pc[b] = "threads_create"
       ]_vars

\* C16 witness: a task polls the run of the second thread of its call while
\* another task holds a thread of its own.
C16_Witness ==
    \E b \in Tasks : \E c \in Tasks \ {b} :
        /\ thread_id[b] = <<b, 2>> /\ retry_count[b] = 1
        /\ thread_args[b] = {<<b, 2>>} /\ run_args[b] = {IssueRunId(<<b, 2>>)}
        /\ pc[b] = "poll_returned"
        /\ thread_id[c] # NoId /\ thread_args[c] # {}

\* C17: in every attempt, a listing that yields agents makes the run use the
\* first of them and creates none; an empty listing is followed by the creation
\* of exactly one agent, which the run uses; a listing or creation that raises
\* leaves the run to be created with the model deployment name; and none of
\* this counts as a failed attempt.
C17_TargetResolution ==
    [][\A b \in Tasks :
        /\ (pc[b] = "list_agents" /\ pc'[b] # "list_agents")
              => /\ retry_count'[b] = retry_count[b] /\ agents' = agents
                 /\ IF agents # <<>>
                    THEN /\ pc'[b] = "runs_create"
                         /\ agent_id'[b] \in {agents[1], 0}
                    ELSE \/ pc'[b] = "create_agent"
                         \/ pc'[b] = "runs_create" /\ agent_id'[b] = 0
        /\ (pc[b] = "create_agent" /\ pc'[b] # "create_agent")
              => /\ retry_count'[b] = retry_count[b] /\ pc'[b] = "runs_create"
                 /\ \/ /\ Len(agents') = Len(agents) + 1
                       /\ SubSeq(agents', 1, Len(agents)) = agents
                       /\ agent_id'[b] = agents'[Len(agents')]
                    \/ agents' = agents /\ agent_id'[b] = 0
        /\ (pc[b] = "runs_create" /\ pc'[b] \in PollPcs \cup {"poll_returned"})
              => /\ retry_count'[b] = retry_count[b]
                 /\ run_target'[b] =
                        IF agent_id[b] # 0
                        THEN [kind |-> "agent_id", id |-> agent_id[b]]
                        ELSE [kind |-> "model", id |-> 0]
    ]_vars

\* C17 witness: in a first attempt the run was created with the agent the
\* attempt itself created because the listing was empty.
C17_Witness ==
    \E b \in Tasks :
        /\ pc[b] = "runs_get" /\ retry_count[b] = 0 /\ attempts[b] = 1
        /\ agents = <<1>> /\ agent_id[b] = 1
        /\ run_target[b] = [kind |-> "agent_id", id |-> 1]
        /\ max_retries = 1

\* C18: the agents are listed only before the batches are dispatched, not by
\* the batch calls.
C18_AgentResolvedOncePerRun ==
    [][\A b \in Tasks :
        (pc[b] = "list_agents" /\ pc'[b] # "list_agents") => m_pc = "start"
    ]_vars

(***************************************************************************)
(* Claims about analyze_cloud_deviations and run(), checked under Spec.    *)
(***************************************************************************)
\* C19: when every batch yielded an empty list, analyze_cloud_deviations returns
\* False and leaves analysis_results as it was (None), and run() returns False
\* without invoking save_analysis_results.
C19_AllBatchesFailed ==
    (/\ m_pc \in {"analyzed", "ran"}
     /\ \A k \in 1..Len(batch_results) : batch_results[k] = EmptyList)
        => /\ success = FALSE
           /\ analysis_results = NoFrame
           /\ ~saved
           /\ m_pc = "ran" => run_out = FALSE

\* C19 witness: run() returned after three batches that all failed.
C19_Witness ==
    /\ m_pc = "ran" /\ NumBatches = 3 /\ FailedBatches = {1, 2, 3}
    /\ batch_results = <<EmptyList, EmptyList, EmptyList>>
    /\ run_out = FALSE /\ ~saved

(***************************************************************************)
(* Claims about _prepare_data_for_analysis, checked under PrepSpec.        *)
(***************************************************************************)
HasRecord(name, env) ==
    \E j \in 1..Len(cloud_data) :
        cloud_data[j].System_Name = name /\ cloud_data[j].Environment_Type = env

\* The flags of summary k say which of DEV, TEST and PROD the records of its
\* system have.
FlagsTellRecords(k) ==
    LET summary == data_for_analysis[k] IN
    /\ summary.Has_DEV <=> HasRecord(summary.System_Name, "DEV")
    /\ summary.Has_TEST <=> HasRecord(summary.System_Name, "TEST")
    /\ summary.Has_PROD <=> HasRecord(summary.System_Name, "PROD")

\* C20: every system of the inventory has a summary, and in every summary
\* Has DEV (Has TEST, Has PROD) is true exactly if some inventory record of that
\* system has the Environment Type DEV (TEST, PROD).
C20_EnvironmentFlags ==
    p_pc = "done" =>
        /\ \A j \in 1..Len(cloud_data) :
              \E k \in 1..Len(data_for_analysis) :
                  data_for_analysis[k].System_Name = cloud_data[j].System_Name
        /\ \A k \in 1..Len(data_for_analysis) : FlagsTellRecords(k)

\* The same for the summaries of the systems that have a name.
FlagsOfNamedSystems ==
    p_pc = "done" =>
        \A k \in 1..Len(data_for_analysis) :
            data_for_analysis[k].System_Name # BlankName => FlagsTellRecords(k)

FirstRecordOf(name) ==
    Min({j \in 1..Len(cloud_data) : cloud_data[j].System_Name = name})
\* The environment-type list of summary k holds every environment type observed
\* for its system exactly once.
TypesListedOnce(k) ==
    \A env \in EnvTypes :
        Cardinality({i \in 1..Len(data_for_analysis[k].Environment_Types) :
            data_for_analysis[k].Environment_Types[i] = env})
          = IF HasRecord(data_for_analysis[k].System_Name, env) THEN 1 ELSE 0
\* Exactly one summary per distinct System Name of the inventory, in order of
\* first appearance.
OneSummaryPerName ==
    LET dfa == data_for_analysis IN
    /\ \A j \in 1..Len(cloud_data) :
          Cardinality({k \in 1..Len(dfa) :
              dfa[k].System_Name = cloud_data[j].System_Name}) = 1
    /\ \A k \in 1..Len(dfa) :
          /\ \E j \in 1..Len(cloud_data) :
                cloud_data[j].System_Name = dfa[k].System_Name
          /\ \A l \in 1..Len(dfa) :
                k < l => FirstRecordOf(dfa[k].System_Name)
                            < FirstRecordOf(dfa[l].System_Name)

\* C21: the summaries hold exactly one entry per distinct System Name of the
\* inventory, in order of first appearance, and the environment-type list of a
\* summary holds every environment type observed for the system exactly once.
C21_OneSummaryPerSystem ==
    p_pc = "done" =>
        /\ OneSummaryPerName
        /\ \A k \in 1..Len(data_for_analysis) : TypesListedOnce(k)

\* The same with the type lists of the systems that have a name only.
SummariesOfNamedSystems ==
    p_pc = "done" =>
        /\ OneSummaryPerName
        /\ \A k \in 1..Len(data_for_analysis) :
              data_for_analysis[k].System_Name # BlankName => TypesListedOnce(k)

(***************************************************************************)
(* Claims about the saved workbook and the results, checked under Spec.    *)
(***************************************************************************)
\* C22: in every saved workbook the metadata total-record count equals the
\* number of entity keys (summaries) of the input.
C22_MetadataCountsInput ==
    workbook # NoWorkbook =>
        workbook.metadata.total_records_analyzed = Len(data)

\* C23: after a successful analysis every entity key of the input summaries has
\* a record in the analysis results.
C23_EveryKeyAccountedFor ==
    (m_pc \in {"analyzed", "ran"} /\ success) =>
        \A k \in 1..Len(data) :
            \E j \in 1..Len(analysis_results.rows) :
                analysis_results.rows[j].System_Name = data[k]

(***************************************************************************)
(* Claims about run(), checked under RunSpec.                              *)
(***************************************************************************)
\* C25: run() invokes load_data, the analysis and save_analysis_results in that
\* order, each at most once; a stage that fails ends the run with False before
\* any later stage; and run() returns True exactly if all three succeeded.
C25_StagesInOrder ==
    /\ \E n \in 0..3 : stages = SubSeq(RunStages, 1, n)
    /\ m_pc = "ran" =>
          /\ run_out <=> (loaded /\ success /\ workbook # NoWorkbook)
          /\ ~loaded => (stages = SubSeq(RunStages, 1, 1) /\ ~run_out)
          /\ (loaded /\ ~success) => (stages = SubSeq(RunStages, 1, 2) /\ ~run_out)
          /\ (loaded /\ success) => stages = RunStages

\* C25 witness: run() returned False after all three stages ran and the save
\* yielded no output file.
C25_Witness ==
    /\ m_pc = "ran" /\ loaded /\ success /\ stages = RunStages
    /\ workbook = NoWorkbook /\ ~run_out

(***************************************************************************)
(* Claims about construction, checked under ConstructSpec.                 *)
(***************************************************************************)
\* C24: a configuration error is fatal at construction: no analyzer with an
\* unusable client is ever returned, and no remote attempt is ever made on
\* behalf of an analyzer whose client is unusable.
C24_ConfigErrorFatal ==
    client = NoClient =>
        /\ m_pc = "off"
        /\ \A b \in Tasks : attempts[b] = 0

(***************************************************************************)
(* Claims about main.py in run mode, checked under MainSpec.               *)
(***************************************************************************)
SelectedWorkflows == SelectSeq(Workflows, LAMBDA w : Selected(process, w))
Exited == block = Len(Workflows) + 2

\* C26: when main() returned, the exit status is 0 exactly if every selected
\* workflow completed all of its stages (extraction, save of the population
\* file, deviation analysis) successfully.
C26_ExitStatusReflectsFailure ==
    (Exited /\ ended = "returned") =>
        (exit_status = 0 <=>
            \A k \in 1..Len(SelectedWorkflows) :
                AllStagesSucceeded(outcome[SelectedWorkflows[k]]))

\* C27: every selected workflow is invoked exactly once, in the order env, db,
\* server, url, cloud, whatever the earlier workflows returned or raised.
C27_EverySelectedWorkflowOnce ==
    /\ \E n \in 0..Len(SelectedWorkflows) :
          invoked = SubSeq(SelectedWorkflows, 1, n)
    /\ Exited => invoked = SelectedWorkflows

\* C27, amended: the workflows invoked so far are always the first of the
\* selected ones, each once and in the order env, db, server, url, cloud; and
\* when main() returned (the workflow manager was constructed and the user did
\* not interrupt the process) every selected workflow has been invoked,
\* whatever the earlier workflows returned or raised.
C27_EverySelectedWorkflowOnceUnlessStopped ==
    /\ \E n \in 0..Len(SelectedWorkflows) :
          invoked = SubSeq(SelectedWorkflows, 1, n)
    /\ (Exited /\ ended = "returned") => invoked = SelectedWorkflows

\* C27 witness: main() returned after all five workflows were invoked although
\* the first one's extractor raised and the third one's analysis failed.
C27_Witness ==
    /\ Exited /\ ended = "returned" /\ process = "all" /\ invoked = Workflows
    /\ outcome["env"].extract = Raises
    /\ outcome["server"].analysis = Falsy

(***************************************************************************)
(* Claims about the choice of the assistant message, under SelectSpec.     *)
(***************************************************************************)
MostRecent(msg, msgs) ==
    /\ IsAssistant(msg)
    /\ \E i \in 1..Len(msgs) : msgs[i] = msg
    /\ \A i \in 1..Len(msgs) :
          IsAssistant(msgs[i]) => msgs[i].created_at <= msg.created_at

\* C30: on status "completed" the message handed to the extractor is the most
\* recent assistant message of the thread, for every ordering and number of
\* listed messages; without an assistant message the poll returns [].
C30_MostRecentAssistantMessage ==
    s_pc = "returned" =>
        IF \E i \in 1..Len(messages) : IsAssistant(messages[i])
        THEN MostRecent(passed, messages)
        ELSE passed = NoMessage /\ poll_out = <<>>

(***************************************************************************)
(* Claims about the concurrency of the batch tasks, checked under Spec and  *)
(* PairSpec.                                                               *)
(***************************************************************************)
InFlight(b) == pc[b] \in AttemptPcs

\* C28: every batch task exists before the dispatcher awaits any of them, and
\* no batch has to wait for another batch's call to finish before it starts:
\* the next task in creation order can start whatever the earlier calls are
\* doing.
C28_AllBatchesDispatchedConcurrently ==
    m_pc = "gather" =>
        /\ \A b \in 1..NumBatches : pc[b] # "unused"
        /\ \A b \in 1..NumBatches :
              (pc[b] = "created" /\ \A c \in 1..(b - 1) : pc[c] # "created")
                  => ENABLED TaskStart(b)

\* C28 witness: all ceil(N/B) = MaxTasks batch calls are in flight at once, each
\* polling the run of its own thread.
C28_Witness ==
    /\ m_pc = "gather" /\ NumBatches = MaxTasks /\ NumBatches > 1
    /\ \A b \in 1..NumBatches : InFlight(b) /\ pc[b] = "runs_get"
    /\ \A b, c \in 1..NumBatches : b # c => thread_id[b] # thread_id[c]

\* The locals of batch task b that the calls of the task assign.
TaskLocals(b) ==
    <<thread_id[b], run_id[b], retry_count[b], poll_count[b], result[b],
      call_out[b]>>
OwnResponses(b) ==
    IF b <= NumBatches THEN ResponseValues(batches[b].rows) ELSE {EmptyList}

\* C29: concurrent batch tasks share no mutable local state: every step
\* assigns the thread id, run id, retry counter, poll counter and result list
\* of at most one task, and the result list of batch i is always one of the
\* responses to batch i's own calls.
C29_TasksShareNoLocals ==
    /\ [](\A b \in Tasks :
            result[b] \in OwnResponses(b) /\ call_out[b].val \in OwnResponses(b))
    /\ [][\A b, c \in Tasks :
              b < c => (TaskLocals(b)' = TaskLocals(b) \/ TaskLocals(c)' = TaskLocals(c))]_vars

\* C29 witness: both calls returned their own records, the second batch before
\* the first, each after a failed first attempt.
C29_Witness ==
    /\ m_pc = "gather" /\ NumBatches = 2
    /\ finished = <<2, 1>>
    /\ call_out[1].val = Node("list", Echo(batches[1].rows))
    /\ call_out[2].val = Node("list", Echo(batches[2].rows))
    /\ retry_count[1] = 1 /\ retry_count[2] = 1

(***************************************************************************)
(* Claims about what a call returns, checked under CallSpec.               *)
(***************************************************************************)
\* The attempt of task b that is under way polled its own thread only, the one
\* created last for the task, and saw its run completed.
OwnCompletedAttempt(b) ==
    /\ run_status[b] = "completed"
    /\ thread_id[b] = <<b, threads_created[b]>>
    /\ thread_args[b] = {thread_id[b]}
    /\ run_args[b] = {run_id[b]}

\* C33: a non-empty result of _call_ai_with_thread_and_run is the extractor's
\* output for a message of the thread of the attempt that produced it, whose
\* run reached "completed"; attempts that failed, timed out or raised
\* contribute nothing to the returned value.
C33_ResultFromCompletedAttempt ==
    /\ [](\A b \in Tasks :
            (pc[b] = "poll_returned" /\ result[b] # EmptyList) =>
                (OwnCompletedAttempt(b) /\ result[b] \in OwnResponses(b)))
    /\ [][\A b \in Tasks :
            (call_out'[b] # call_out[b] /\ call_out'[b].val # EmptyList) =>
                /\ pc[b] = "poll_returned"
                /\ OwnCompletedAttempt(b)
                /\ call_out'[b].val = result[b]]_vars

\* C33 witness: the call returned the records of its second attempt after a
\* first attempt that failed.
C33_Witness ==
    /\ pc[1] = "returned" /\ call_out[1].val = Node("list", Echo(batches[1].rows))
    /\ retry_count[1] = 1 /\ attempts[1] = 2 /\ threads_created[1] = 2

\* Task b is at a remote call of _poll_for_completion.
AtPollCall(b) == pc[b] \in {"runs_get", "messages_list"}

\* C34: an exception raised by a remote call inside _poll_for_completion is
\* never propagated; it consumes exactly one poll attempt and is followed by a
\* sleep unless it was the last one; a run whose every poll raises makes the
\* poll return [] after exactly the poll bound of attempts.
C34_PollExceptionCountsOnce ==
    /\ [](\A b \in Tasks :
            /\ pc[b] = "poll_exc_sleep" => poll_count[b] < poll_max
            /\ (pc[b] = "poll_returned" /\ attempts[b] = 1
                  /\ run_status[b] = "none") =>
                  /\ polls_issued[b] = poll_max /\ poll_count[b] = poll_max
                  /\ result[b] = EmptyList)
    /\ [][\A b \in Tasks :
            (AtPollCall(b) /\ poll_count'[b] # poll_count[b]) =>
                /\ poll_count'[b] = poll_count[b] + 1
                /\ call_out'[b] = call_out[b] /\ retry_count'[b] = retry_count[b]
                /\ IF poll_count'[b] < poll_max
                   THEN pc'[b] = "poll_exc_sleep"
                   ELSE pc'[b] = "poll_returned" /\ result'[b] = EmptyList]_vars

\* C34 witness: every status request of the first attempt raised and the poll
\* returned [] after MaxPolls requests.
C34_Witness ==
    /\ pc[1] = "poll_returned" /\ attempts[1] = 1 /\ run_status[1] = "none"
    /\ poll_max = MaxPolls /\ polls_issued[1] = MaxPolls /\ result[1] = EmptyList

\* The poll of task b came back from a completed run with nothing extracted.
CompletedEmpty(b) ==
    pc[b] = "poll_returned" /\ run_status[b] = "completed" /\ result[b] = EmptyList

\* C35: a run that completes with a response from which an empty list is
\* recovered is treated like a failed attempt: the retry counter is incremented
\* and a new thread and run are created, until max_retries attempts are used.
C35_EmptyResultRetried ==
    [][\A b \in Tasks :
         /\ (CompletedEmpty(b) /\ pc'[b] # pc[b]) =>
               /\ retry_count'[b] = retry_count[b] + 1
               /\ thread_id'[b] = NoId /\ run_id'[b] = NoId
               /\ IF retry_count'[b] < max_retries
                  THEN pc'[b] = "threads_create" /\ call_out'[b] = call_out[b]
                  ELSE pc'[b] = "returned" /\ call_out'[b] = Returned(EmptyList)
         /\ (pc[b] = "threads_create" /\ pc'[b] = "messages_create") =>
               /\ thread_id'[b] \notin {<<b, k>> : k \in 0..threads_created[b]}
               /\ attempts'[b] = retry_count[b] + 1]_vars

\* C35 witness: the second attempt of a call, on a thread of its own, came back
\* from a completed run with nothing extracted before the poll bound was used.
C35_Witness ==
    /\ CompletedEmpty(1) /\ poll_count[1] < poll_max
    /\ retry_count[1] = 1 /\ attempts[1] = 2 /\ thread_id[1] = <<1, 2>>
    /\ max_retries = MaxRetries

(***************************************************************************)
(* Claims about the metadata counts, checked under MetaSpec.               *)
(***************************************************************************)
\* The result rows the metadata of the workbook was computed from.
CountedRows == IF workbook = NoWorkbook THEN <<>> ELSE analysis_results.rows

\* C36: the metadata counts satisfy total_records_analyzed = exception_records
\* + ok_records + unknown_records, all four are non-negative, and
\* unknown_records counts exactly the result rows whose verdict is neither "OK"
\* nor "Deviation".
C36_MetadataCountsAddUp ==
    LET md == workbook.metadata IN
        /\ md.total_records_analyzed =
               md.exception_records + md.ok_records + md.unknown_records
        /\ md.total_records_analyzed >= 0 /\ md.exception_records >= 0
        /\ md.ok_records >= 0 /\ md.unknown_records >= 0
        /\ md.unknown_records =
               Cardinality({k \in 1..Len(CountedRows) :
                   CountedRows[k].Cloud_Config \notin {"OK", "Deviation"}})

\* C36 witness: a saved workbook whose results hold one OK record, one
\* Deviation record and one record with another verdict.
C36_Witness ==
    /\ m_pc = "ran" /\ workbook # NoWorkbook
    /\ workbook.metadata.total_records_analyzed = 3
    /\ workbook.metadata.exception_records = 1
    /\ workbook.metadata.ok_records = 1
    /\ workbook.metadata.unknown_records = 1
    /\ \E k \in 1..3 : analysis_results.rows[k].Cloud_Config = "ok"

(***************************************************************************)
(* Claims about the stages of a workflow, checked under MainSpec.          *)
(***************************************************************************)
\* A stage fails if it returns a falsy value or raises an Exception; a stage
\* the user interrupted neither succeeded nor failed.
StageFails(x) == x \in {Raises, Falsy}

\* C37: in every workflow the deviation analysis is started only after the
\* extractor's run() returned True and save_verified_population_file returned
\* a file; if extraction or saving fails the analysis is never invoked and the
\* workflow returns False (so that main's success is cleared).
C37_AnalysisOnlyAfterExtraction ==
    \A k \in 1..Len(invoked) :
        LET o == outcome[invoked[k]] IN
            /\ o.analysis # NotCalled =>
                  (o.extract = TruthyValue /\ o.save = TruthyValue)
            /\ (StageFails(o.extract) \/ StageFails(o.save)) =>
                  (o.analysis = NotCalled /\ ~run_workflow(o) /\ ~main_success)

\* C37 witness: the cloud workflow, run alone, saved no file after a successful
\* extraction; its analysis was not invoked and main exits with status 1.
C37_Witness ==
    /\ Exited /\ process = "cloud" /\ invoked = <<"cloud">>
    /\ outcome["cloud"].extract = TruthyValue /\ outcome["cloud"].save = Falsy
    /\ outcome["cloud"].analysis = NotCalled /\ exit_status = 1

(***************************************************************************)
(* Claims about the scheduler manager, checked under SchedSpec.            *)
(***************************************************************************)
PositionOf(n) == CHOOSE k \in 1..Len(SchedulerNames) : SchedulerNames[k] = n

\* C38: on a tick a workflow's extraction is executed only if its scheduler is
\* registered, running, has a next_run and the tick's time is at or past it;
\* its analysis is executed only on a tick where that extraction was executed
\* and reported success; the due workflows are handled one after the other in
\* the order environment, database, server, url, cloud.
C38_TickExecutesDueOnly ==
    /\ [](\A i \in 1..Len(executed) :
            /\ executed[i].kind = "analysis" =>
                  /\ i > 1
                  /\ executed[i - 1] = Extraction(executed[i].name, TRUE)
            /\ \A j \in 1..(i - 1) :
                  PositionOf(executed[j].name) <= PositionOf(executed[i].name)
            /\ \A j \in 1..(i - 1) :
                  executed[j].kind = executed[i].kind =>
                      executed[j].name # executed[i].name)
    /\ [][(executed' # executed /\ executed' # <<>>) =>
            LET first == executed'[Len(executed) + 1]
                s == schedulers[first.name]
            IN /\ k_pc = "tick"
               /\ SubSeq(executed', 1, Len(executed)) = executed
               /\ first.kind = "extraction"
               /\ first.name = SchedulerNames[tick_block]
               /\ s.registered /\ s.running
               /\ s.next_run # NoTime /\ now >= s.next_run]_vars

\* C38 witness: a tick over all five schedulers that executed environment with
\* its analysis, skipped database (stopped) and url (no next run), executed
\* server without analysis because its extraction failed, and executed cloud.
C38_Witness ==
    /\ k_pc = "tick" /\ tick_block = Len(SchedulerNames) + 1
    /\ executed = <<Extraction("environment", TRUE), Analysis("environment"),
                    Extraction("server", FALSE),
                    Extraction("cloud", TRUE), Analysis("cloud")>>
    /\ schedulers["database"].registered /\ ~schedulers["database"].running
    /\ schedulers["url"].running /\ schedulers["url"].next_run = NoTime

\* C39: whenever run_schedulers returns, no registered scheduler is still
\* running: with a duration, on an interrupt and on an error stop() is called
\* on every running scheduler before the return, and with no running scheduler
\* at all run_schedulers returns True at once without executing a workflow.
C39_NoSchedulerRunsAfterReturn ==
    /\ [](k_pc = "returned" =>
            /\ ~AnyRunning(schedulers)
            /\ sched_out \in {"True", "False"})
    /\ [][/\ (k_pc # "returned" /\ k_pc' = "returned") =>
               \A n \in SchedulerSet :
                   (schedulers[n].registered /\ schedulers[n].running) =>
                       n \in stopped'
          /\ (k_pc = "test" /\ ~AnyRunning(schedulers)) =>
               /\ k_pc' = "returned" /\ sched_out' = "True"
               /\ executed' = executed]_vars

\* C39 witness: run_schedulers returned False after an extraction raised in a
\* tick, having stopped the three schedulers that were running.
C39_Witness ==
    /\ k_pc = "returned" /\ sched_out = "False" /\ duration = 0
    /\ Cardinality(stopped) = 3
    /\ executed # <<>> /\ ~executed[Len(executed)].ok

(***************************************************************************)
(* Claims about the server data extractor, checked under ServerSpec.       *)
(***************************************************************************)
Succeeded(name) ==
    \E i \in 1..Len(steps) : steps[i] = [step |-> name, ok |-> TRUE]

\* C31: run() executes load, validate, client-name extraction, filter and
\* output-path preparation in that order, each at most once; it returns True
\* if and only if load, validate and filter all succeeded; once one of them
\* has not succeeded no later step is executed and output_file stays unset.
C31_RunStepsInOrder ==
    /\ Len(steps) <= Len(RunSteps)
    /\ \A i \in 1..Len(steps) : steps[i].step = RunSteps[i]
    /\ d_pc # "done" => d_out = "none"
    /\ d_pc = "done" =>
          /\ d_out \in {"True", "False"}
          /\ d_out = "True" <=> /\ Succeeded("load")
                                /\ Succeeded("validate")
                                /\ Succeeded("filter")
    /\ \A i \in 1..Len(steps) :
          ~steps[i].ok => /\ i = Len(steps)
                          /\ d_pc = "done"
                          /\ output_file = NoOutput
    /\ output_file # NoOutput => Succeeded("filter")

\* C31 witness: run() returned False after a filter that matched no row: four
\* steps were executed, the output path was not prepared.
C31_Witness ==
    /\ d_pc = "done" /\ d_out = "False"
    /\ Len(steps) = 4 /\ steps[4] = Step(4, FALSE)
    /\ Succeeded("load") /\ Succeeded("validate") /\ Succeeded("client")
    /\ ~filtered_server_data.is_none /\ filtered_server_data.rows = <<>>
    /\ output_file = NoOutput

\* What the claim calls trimmed, comma-separated and equal to 'all', said
\* without the operators of the filter.
Trimmed(t) == t = <<>> \/ (t[1] # " " /\ t[Len(t)] # " ")
NoComma(t) == \A i \in 1..Len(t) : t[i] # ","
RECURSIVE Joined(_)
Joined(names) ==
    IF Len(names) = 1 THEN names[1]
    ELSE names[1] \o <<",">> \o Joined(Tail(names))
Unspaced(t) == SelectSeq(t, LAMBDA c : c # " ")
SaysAll(t) ==
    \E i \in 1..Len(t) :
        /\ i + 2 <= Len(t)
        /\ t[i] \in {"a", "A"} /\ t[i + 1] \in {"l", "L"} /\ t[i + 2] \in {"l", "L"}
        /\ \A j \in 1..Len(t) : j \notin i..(i + 2) => t[j] = " "
FilterStepped == Len(steps) >= 4

\* C32: after the filter step returned True every filtered row is a loaded
\* row, and either system_names_list is ['All'], the filtered data is the
\* whole loaded table and a parameter value says 'all' (trimmed, in any case),
\* or system_names_list is the trimmed comma-separated names of a parameter
\* value and the filtered data is exactly the loaded rows whose System Name is
\* in it; the step does not return True when no row matches.
C32_FilterSelectsNamedRows ==
    FilterStepped =>
      LET params == extraction_params.rows
          table == server_data.rows
          rows == filtered_server_data.rows
          named == SelectSeq(table, LAMBDA r :
                       \E i \in 1..Len(system_names_list) :
                           system_names_list[i] = r.name)
      IN /\ steps[4].ok =>
              /\ ~filtered_server_data.is_none
              /\ \A i \in 1..Len(rows) : \E j \in 1..Len(table) : rows[i] = table[j]
              /\ \/ /\ system_names_list = <<AllLabel>>
                    /\ rows = table
                    /\ \E k \in 1..Len(params) :
                          params[k].kind = "str" /\ SaysAll(params[k].text)
                 \/ /\ system_names_list # <<>>
                    /\ \A i \in 1..Len(system_names_list) :
                          Trimmed(system_names_list[i]) /\ NoComma(system_names_list[i])
                    /\ \E k \in 1..Len(params) :
                          /\ params[k].kind = "str" /\ ~SaysAll(params[k].text)
                          /\ Unspaced(Joined(system_names_list))
                                = Unspaced(params[k].text)
                    /\ rows = named
         /\ (filtered_server_data.is_none \/ rows = <<>>) => ~steps[4].ok

\* C32 witness: the parameter " a," selected the one loaded row named "a" of a
\* table that also has a row named "L".
C32_Witness ==
    /\ FilterStepped /\ steps[4].ok
    /\ extraction_params.rows = <<Str(<<" ", "a", ",">>)>>
    /\ system_names_list = << <<"a">>, <<>> >>
    /\ Len(server_data.rows) = 2
    /\ Len(filtered_server_data.rows) = 1
    /\ filtered_server_data.rows[1].name = <<"a">>

(***************************************************************************)
(* Claim about validate_data_content, checked under ValidSpec.             *)
(***************************************************************************)
\* C40: when validate_data_content returns (True, 'Some records with missing
\* values in required columns were filtered out'), the caller's environment
\* data has no record with a missing Env-ID or System Name any more.
C40_MissingRecordsRemoved ==
    (v_pc = "returned" /\ v_out = Verdict(TRUE, "some records were filtered out"))
        => ~any_null(env_data.rows)

=============================================================================
